---------------------------- MODULE Spec2Model ----------------------------
(***************************************************************************)
(* dbkit: transaction/savepoint manager (tx.go) and migration engine       *)
(* (softdelete.go: Migrate, applyMigration, ...) over one PostgreSQL       *)
(* database reached through database/sql.                                  *)
(*                                                                         *)
(* The database is modelled by what it keeps: the durable rows, the        *)
(* durable schema changes and the ledger table; a physical transaction is  *)
(* a list of pending writes with a stack of savepoints, made durable as a  *)
(* whole by COMMIT.                                                        *)
(***************************************************************************)
EXTENDS Integers, Sequences, FiniteSets, TLC

(* ------------------------------ bounds --------------------------------- *)
MaxCallers == 2
MaxWrites == 3
MaxDepth == 2
MaxSavepoints == 2
MaxManualOps == 3
MaxList == 3
MaxRaceList == 2
MaxReportList == 2
MaxSavepointOps == 3

Callers == 1 .. MaxCallers

VARIABLES
    db,        \* durable database state: rows, schema, ledger, ledger table
    tx,        \* per caller: the physical transaction and the Tx wrapper's counter
    mode,      \* what the transaction client is doing: idle, callback, manual, returned
    stack,     \* callback mode: the open scopes, top-level first (savepoint id, 0 = top)
    lastErr,   \* what the last nested tx.Transaction returned to the enclosing fn
    ret,       \* what db.Transaction returned (or the panic that left it)
    fnRet,     \* what the top-level fn returned (or that it panicked)
    wrote,     \* history: writes that executed successfully, with the scopes around them
    scopes,    \* history: scopes that ended (0 = top-level), with fn's result, the
               \* result of the rollback statement and what the wrapper returned
    lastOp,    \* manual mode: the last Commit/Rollback call and its result
    nOps,      \* manual mode: number of Commit/Rollback calls made
    names,     \* history: the savepoint names allocated on the transaction, in order
    co,        \* per goroutine sharing the callback's scope: its nested scopes
    log,       \* manual mode, history: the savepoint calls made, each with its result
               \* and the number of writes made before it
    rt,        \* the RetryOnConflict call: loop counter, lastErr, fn's results so far
    mig        \* per caller: the Migrate call in progress (or the last one) and its result

txVars == <<mode, stack, lastErr, ret, fnRet, wrote, scopes, lastOp, nOps, names, co, log, rt>>
vars == <<db, tx, txVars, mig>>

(* ------------------------------ errors --------------------------------- *)
Nil == [kind |-> "nil"]
\* errors.New(...) returned by user callbacks
UserErr == [kind |-> "user", name |-> "E1"]
\* database/sql and driver errors
ErrTxDone == [kind |-> "driver", name |-> "sql: transaction has already been committed or rolled back"]
ErrConn == [kind |-> "driver", name |-> "connection reset"]
ErrCommitRollback == [kind |-> "driver", name |-> "commit unexpectedly resulted in rollback"]
ErrNoRows == [kind |-> "driver", name |-> "sql: no rows in result set"]
PgError(code) == [kind |-> "pg", code |-> code]

\* fmt.Errorf("dbkit: <prefix>: %v (original error: %w)", rbErr, err)
Errorf(prefix, rbErr, err) == [kind |-> "errorf", prefix |-> prefix, rb |-> rbErr, wraps |-> err]

\* errors.As(err, &dbErr): is there a *Error in err's Unwrap chain
RECURSIVE AsError(_)
AsError(err) ==
    CASE err.kind = "Error" -> TRUE
      [] err.kind = "errorf" -> AsError(err.wraps)
      [] OTHER -> FALSE

wrapPgError(pgErr, op) ==
    LET code == CASE pgErr.code = "23505" -> "DUPLICATE"
                  [] pgErr.code = "23503" -> "FOREIGN_KEY"
                  [] pgErr.code = "23502" -> "NOT_NULL"
                  [] pgErr.code = "23514" -> "CHECK_VIOLATION"
                  [] pgErr.code = "40001" -> "SERIALIZATION"
                  [] pgErr.code = "40P01" -> "DEADLOCK"
                  [] pgErr.code = "57014" -> "TIMEOUT"
                  [] pgErr.code \in {"08000", "08003", "08006"} -> "CONNECTION_FAILED"
                  [] OTHER -> "UNKNOWN"
    IN [kind |-> "Error", code |-> code, op |-> op, msg |-> pgErr.code, cause |-> pgErr]

wrapError(err, op) ==
    IF err = Nil THEN Nil
    ELSE IF AsError(err) THEN err
    ELSE IF err = ErrNoRows
         THEN [kind |-> "Error", code |-> "NOT_FOUND", op |-> op,
               msg |-> "record not found", cause |-> err]
    ELSE IF err.kind = "pg" THEN wrapPgError(err, op)
    ELSE [kind |-> "Error", code |-> "UNKNOWN", op |-> op, msg |-> err.name, cause |-> err]

\* the ErrorCode constants
ErrorCodes ==
    {"NOT_FOUND", "DUPLICATE", "FOREIGN_KEY", "CHECK_VIOLATION", "NOT_NULL",
     "CONNECTION_FAILED", "TIMEOUT", "SERIALIZATION", "DEADLOCK", "UNKNOWN"}

\* errors.Is(err, sentinel), the sentinel named by the code (*Error).Is matches it with:
\* every error of the chain is asked, an *Error answers by its Code (never for UNKNOWN)
RECURSIVE ErrorsIs(_, _)
ErrorsIs(err, code) ==
    CASE err.kind = "Error" ->
             \/ (err.code = code /\ code # "UNKNOWN")
             \/ ErrorsIs(err.cause, code)
      [] err.kind = "errorf" -> ErrorsIs(err.wraps, code)
      [] OTHER -> FALSE

\* func IsRetryable(err error) bool
IsRetryable(err) == ErrorsIs(err, "SERIALIZATION") \/ ErrorsIs(err, "DEADLOCK")

(* ------------------- the database and its transactions ----------------- *)
\* at is the transaction's start time, what NOW() returns inside it
NoTx == [state |-> "none", aborted |-> FALSE, pending |-> <<>>, savepoints |-> <<>>,
         seq |-> 0, cmds |-> <<>>, at |-> 0]

\* ledger holds the id and checksum columns of _dbkit_migrations, row by row in
\* commit order; applied_at holds the applied_at column of the same rows
EmptyDb == [rows |-> {}, schema |-> <<>>, ledger |-> <<>>, applied_at |-> <<>>,
            table |-> FALSE]

\* COMMIT makes the pending writes durable, in the order they were made
RECURSIVE ApplyWrites(_, _)
ApplyWrites(d, pending) ==
    IF pending = <<>> THEN d
    ELSE LET p == Head(pending)
             d1 == CASE p.kind = "row" -> [d EXCEPT !.rows = @ \cup {p.w}]
                     [] p.kind = "schema" ->
                            [d EXCEPT !.schema = Append(@, [id |-> p.id, sql |-> p.sql])]
                     [] p.kind = "ledger" ->
                            [d EXCEPT !.ledger = Append(@, [id |-> p.id, checksum |-> p.checksum]),
                                      !.applied_at = Append(@, p.at)]
         IN ApplyWrites(d1, Tail(pending))

\* index of the newest savepoint with this name, 0 if there is none
SavepointIndex(t, name) ==
    LET hits == {i \in 1 .. Len(t.savepoints) : t.savepoints[i].name = name}
    IN IF hits = {} THEN 0 ELSE CHOOSE i \in hits : \A j \in hits : j <= i

\* db.DB.BeginTx
SqlBegin(ok) ==
    IF ok THEN [tx |-> [NoTx EXCEPT !.state = "open", !.cmds = <<"BEGIN">>], err |-> Nil]
    ELSE [tx |-> NoTx, err |-> ErrConn]

\* a row write through the scope (helper code running ExecContext on the Tx)
SqlWrite(t, w, ok) ==
    IF t.state # "open" THEN [tx |-> t, err |-> ErrTxDone]
    ELSE IF ~ok THEN [tx |-> [t EXCEPT !.aborted = TRUE], err |-> ErrConn]
    ELSE IF t.aborted THEN [tx |-> t, err |-> PgError("25P02")]
    ELSE [tx |-> [t EXCEPT !.pending = Append(@, [kind |-> "row", w |-> w])], err |-> Nil]

\* tx.ExecContext(ctx, "SAVEPOINT "+name)
SqlSavepoint(t, name, ok) ==
    IF t.state # "open" THEN [tx |-> t, err |-> ErrTxDone]
    ELSE LET t1 == [t EXCEPT !.cmds = Append(@, "SAVEPOINT " \o name)]
         IN IF ~ok THEN [tx |-> [t1 EXCEPT !.aborted = TRUE], err |-> ErrConn]
            ELSE IF t.aborted THEN [tx |-> t1, err |-> PgError("25P02")]
            ELSE [tx |-> [t1 EXCEPT !.savepoints =
                                 Append(@, [name |-> name, mark |-> Len(t.pending)])],
                  err |-> Nil]

\* tx.ExecContext(ctx, "ROLLBACK TO SAVEPOINT "+name)
SqlRollbackTo(t, name, ok) ==
    IF t.state # "open" THEN [tx |-> t, err |-> ErrTxDone]
    ELSE LET t1 == [t EXCEPT !.cmds = Append(@, "ROLLBACK TO SAVEPOINT " \o name)]
             i == SavepointIndex(t, name)
         IN IF ~ok THEN [tx |-> [t1 EXCEPT !.aborted = TRUE], err |-> ErrConn]
            ELSE IF i = 0 THEN [tx |-> [t1 EXCEPT !.aborted = TRUE], err |-> PgError("3B001")]
            ELSE [tx |-> [t1 EXCEPT !.aborted = FALSE,
                                    !.pending = SubSeq(@, 1, t.savepoints[i].mark),
                                    !.savepoints = SubSeq(@, 1, i)],
                  err |-> Nil]

\* tx.ExecContext(ctx, "RELEASE SAVEPOINT "+name)
SqlRelease(t, name, ok) ==
    IF t.state # "open" THEN [tx |-> t, err |-> ErrTxDone]
    ELSE LET t1 == [t EXCEPT !.cmds = Append(@, "RELEASE SAVEPOINT " \o name)]
             i == SavepointIndex(t, name)
         IN IF ~ok THEN [tx |-> [t1 EXCEPT !.aborted = TRUE], err |-> ErrConn]
            ELSE IF t.aborted THEN [tx |-> t1, err |-> PgError("25P02")]
            ELSE IF i = 0 THEN [tx |-> [t1 EXCEPT !.aborted = TRUE], err |-> PgError("3B001")]
            ELSE [tx |-> [t1 EXCEPT !.savepoints = SubSeq(@, 1, i - 1)], err |-> Nil]

\* tx.Tx.Commit(): sql.Tx is done afterwards whatever the outcome
SqlCommit(t, d, ok) ==
    IF t.state # "open" THEN [tx |-> t, db |-> d, err |-> ErrTxDone]
    ELSE LET t1 == [t EXCEPT !.cmds = Append(@, "COMMIT"), !.pending = <<>>,
                             !.savepoints = <<>>, !.aborted = FALSE]
         IN IF ~ok THEN [tx |-> [t1 EXCEPT !.state = "lost"], db |-> d, err |-> ErrConn]
            ELSE IF t.aborted
                 THEN [tx |-> [t1 EXCEPT !.state = "rolledback"], db |-> d,
                       err |-> ErrCommitRollback]
            ELSE [tx |-> [t1 EXCEPT !.state = "committed"], db |-> ApplyWrites(d, t.pending),
                  err |-> Nil]

\* tx.Tx.Rollback(): sql.Tx is done afterwards whatever the outcome
SqlRollback(t, ok) ==
    IF t.state # "open" THEN [tx |-> t, err |-> ErrTxDone]
    ELSE LET t1 == [t EXCEPT !.cmds = Append(@, "ROLLBACK"), !.pending = <<>>,
                             !.savepoints = <<>>, !.aborted = FALSE]
         IN IF ok THEN [tx |-> [t1 EXCEPT !.state = "rolledback"], err |-> Nil]
            ELSE [tx |-> [t1 EXCEPT !.state = "lost"], err |-> ErrConn]

(* ------------------------------- tx.go --------------------------------- *)
\* mutant of Commit: sql.ErrTxDone is ignored, as Rollback does
Commit_IgnoresTxDone(t, d, ok) ==
    LET r == SqlCommit(t, d, ok)
    IN [tx |-> r.tx, db |-> r.db,
        err |-> IF r.err = ErrTxDone THEN Nil ELSE wrapError(r.err, "Commit")]

\* func (tx *Tx) Commit() error
Commit(t, d, ok) ==
    LET r == SqlCommit(t, d, ok)
    IN [tx |-> r.tx, db |-> r.db, err |-> wrapError(r.err, "Commit")]

\* mutant of Rollback: sql.ErrTxDone is not ignored
Rollback_ReportsTxDone(t, ok) ==
    LET r == SqlRollback(t, ok)
    IN [tx |-> r.tx, err |-> wrapError(r.err, "Rollback")]

\* func (tx *Tx) Rollback() error
Rollback(t, ok) ==
    LET r == SqlRollback(t, ok)
    IN [tx |-> r.tx,
        err |-> IF r.err # Nil
                THEN IF r.err = ErrTxDone THEN Nil ELSE wrapError(r.err, "Rollback")
                ELSE Nil]

\* BeginWithOptions
BeginWithOptions(ok) ==
    LET r == SqlBegin(ok)
    IN [tx |-> r.tx, err |-> wrapError(r.err, "Begin")]

\* TransactionWithOptions, from BeginTx to the construction of tx
TransactionBegin(ok) ==
    LET r == SqlBegin(ok)
    IN [tx |-> r.tx, err |-> wrapError(r.err, "Transaction.Begin")]

\* mutant of TransactionEnd: commits whatever fn returned
TransactionEnd_CommitsOnError(t, d, err, ok) ==
    LET c == Commit(t, d, ok)
    IN [tx |-> c.tx, db |-> c.db,
        err |-> IF err # Nil THEN err ELSE wrapError(c.err, "Transaction.Commit")]

\* TransactionWithOptions, after fn returned err
TransactionEnd(t, d, err, ok) ==
    IF err # Nil
    THEN LET rb == Rollback(t, ok)
         IN [tx |-> rb.tx, db |-> d,
             err |-> IF rb.err # Nil THEN Errorf("rollback failed", rb.err, err) ELSE err]
    ELSE LET c == Commit(t, d, ok)
         IN [tx |-> c.tx, db |-> c.db, err |-> wrapError(c.err, "Transaction.Commit")]

\* mutant of TransactionRecover: a rollback error replaces the panic value
TransactionRecover_MasksPanic(t, p, ok) ==
    LET rb == Rollback(t, ok)
    IN [tx |-> rb.tx, panic |-> IF rb.err # Nil THEN rb.err ELSE p]

\* TransactionWithOptions, the deferred recover() when fn panicked with p
TransactionRecover(t, p, ok) ==
    LET rb == Rollback(t, ok)
    IN [tx |-> rb.tx, panic |-> p]

\* fmt.Sprintf("sp_%d", id)
SavepointName(id) == "sp_" \o ToString(id)

\* mutant of AddSavepointSeq: the counter is read but not advanced
AddSavepointSeq_NotAdvanced(t) == [tx |-> t, id |-> t.seq + 1]

\* id := atomic.AddInt64(tx.savepointSeq, 1): one indivisible step on the counter
\* shared by every scope of the physical transaction
AddSavepointSeq(t) == [tx |-> [t EXCEPT !.seq = @ + 1], id |-> t.seq + 1]

\* mutant of NestedSavepoint: a failed SAVEPOINT is followed by ROLLBACK TO SAVEPOINT
NestedSavepoint_RollsBackOnError(t, id, ok) ==
    LET r == SqlSavepoint(t, SavepointName(id), ok)
    IN [tx |-> IF r.err # Nil THEN SqlRollbackTo(r.tx, SavepointName(id), ok).tx ELSE r.tx,
        id |-> id, err |-> wrapError(r.err, "Transaction.Savepoint")]

\* Tx.Transaction: the SAVEPOINT statement for the id allocated
NestedSavepoint(t, id, ok) ==
    LET r == SqlSavepoint(t, SavepointName(id), ok)
    IN [tx |-> r.tx, id |-> id, err |-> wrapError(r.err, "Transaction.Savepoint")]

\* Tx.Transaction, up to the call of fn
NestedBegin(t, ok) ==
    LET a == AddSavepointSeq(t)
    IN NestedSavepoint(a.tx, a.id, ok)

\* mutant of NestedEnd: a failed ROLLBACK TO SAVEPOINT is dropped, fn's error returned
NestedEnd_DropsRollbackError(t, id, err, ok) ==
    IF err # Nil
    THEN [tx |-> SqlRollbackTo(t, SavepointName(id), ok).tx, err |-> err]
    ELSE LET r == SqlRelease(t, SavepointName(id), ok)
         IN [tx |-> r.tx, err |-> wrapError(r.err, "Transaction.ReleaseSavepoint")]

\* mutant of NestedEnd: the savepoint is released whatever fn returned
NestedEnd_ReleasesOnError(t, id, err, ok) ==
    LET r == SqlRelease(t, SavepointName(id), ok)
    IN [tx |-> r.tx,
        err |-> IF err # Nil THEN err ELSE wrapError(r.err, "Transaction.ReleaseSavepoint")]

\* mutant of NestedEnd: on an error the whole transaction is rolled back
NestedEnd_RollsBackAll(t, id, err, ok) ==
    IF err # Nil
    THEN LET rb == Rollback(t, ok)
         IN [tx |-> rb.tx,
             err |-> IF rb.err # Nil
                     THEN Errorf("savepoint rollback failed", rb.err, err)
                     ELSE err]
    ELSE LET r == SqlRelease(t, SavepointName(id), ok)
         IN [tx |-> r.tx, err |-> wrapError(r.err, "Transaction.ReleaseSavepoint")]

\* mutant of NestedEnd: after ROLLBACK TO SAVEPOINT the savepoint is also released
NestedEnd_ReleasesAfterRollback(t, id, err, ok) ==
    IF err # Nil
    THEN LET rb == SqlRollbackTo(t, SavepointName(id), ok)
         IN [tx |-> SqlRelease(rb.tx, SavepointName(id), ok).tx,
             err |-> IF rb.err # Nil
                     THEN Errorf("savepoint rollback failed", rb.err, err)
                     ELSE err]
    ELSE LET r == SqlRelease(t, SavepointName(id), ok)
         IN [tx |-> r.tx, err |-> wrapError(r.err, "Transaction.ReleaseSavepoint")]

\* Tx.Transaction, after fn(nestedTx) returned err
NestedEnd(t, id, err, ok) ==
    IF err # Nil
    THEN LET rb == SqlRollbackTo(t, SavepointName(id), ok)
         IN [tx |-> rb.tx,
             err |-> IF rb.err # Nil
                     THEN Errorf("savepoint rollback failed", rb.err, err)
                     ELSE err]
    ELSE LET r == SqlRelease(t, SavepointName(id), ok)
         IN [tx |-> r.tx, err |-> wrapError(r.err, "Transaction.ReleaseSavepoint")]

\* func (tx *Tx) Savepoint(ctx, name) error
Savepoint(t, name, ok) ==
    LET r == SqlSavepoint(t, name, ok)
    IN [tx |-> r.tx, err |-> wrapError(r.err, "Savepoint")]

\* func (tx *Tx) ReleaseSavepoint(ctx, name) error
ReleaseSavepoint(t, name, ok) ==
    LET r == SqlRelease(t, name, ok)
    IN [tx |-> r.tx, err |-> wrapError(r.err, "ReleaseSavepoint")]

\* mutant of RollbackTo: the statement sent is RELEASE SAVEPOINT
RollbackTo_Releases(t, name, ok) ==
    LET r == SqlRelease(t, name, ok)
    IN [tx |-> r.tx, err |-> wrapError(r.err, "RollbackTo")]

\* func (tx *Tx) RollbackTo(ctx, name) error
RollbackTo(t, name, ok) ==
    LET r == SqlRollbackTo(t, name, ok)
    IN [tx |-> r.tx, err |-> wrapError(r.err, "RollbackTo")]

(* --------------------- softdelete.go: migrations ----------------------- *)
SqlUsers == "CREATE TABLE IF NOT EXISTS users (id INT)"
SqlUsersEdited == "create table if not exists users (id int)"
SqlPosts == "CREATE TABLE IF NOT EXISTS posts (id INT)"
SqlPostsBroken == "CREATE TABEL IF NOT EXISTS posts (id INT)"
SqlTags == "CREATE TABLE IF NOT EXISTS tags (id INT)"

\* the migrations callers pass: ids out of lexical order, an edited and a broken SQL text
Catalogue ==
    { [id |-> "b_002", sql |-> SqlUsers], [id |-> "b_002", sql |-> SqlUsersEdited],
      [id |-> "a_001", sql |-> SqlPosts], [id |-> "a_001", sql |-> SqlPostsBroken],
      [id |-> "c_003", sql |-> SqlTags] }

Lists == UNION {[1 .. n -> Catalogue] : n \in 0 .. MaxList}

\* the lists callers pass to MigrationStatus
ReportLists == UNION {[1 .. n -> Catalogue] : n \in 0 .. MaxReportList}

\* the lists concurrent callers pass: no id twice in a list, ids shared between the
\* lists, with the same or another SQL text
RaceCatalogue ==
    { [id |-> "b_002", sql |-> SqlUsers], [id |-> "b_002", sql |-> SqlUsersEdited],
      [id |-> "a_001", sql |-> SqlPosts] }
RaceLists ==
    {l \in UNION {[1 .. n -> RaceCatalogue] : n \in 1 .. MaxRaceList} :
        \A i, j \in 1 .. Len(l) : l[i].id = l[j].id => i = j}

\* does PostgreSQL accept the statement
ValidSQL(sql) == sql # SqlPostsBroken

\* checksumSQL: hex.EncodeToString(sha256.Sum256([]byte(sql)))
checksumSQL(sql) ==
    CASE sql = SqlUsers -> "33beffd7d218a1097b11a6a08abe12e211da0137f69fdb54cac5d7e0ac99b933"
      [] sql = SqlUsersEdited -> "e2ccdda518ab459c7527158646444e528340cc92a89c912e6068cece637a1c24"
      [] sql = SqlPosts -> "b7f0b17ff447dc019b06a68037536858e10f1fa0087e67a8380958d315bcf979"
      [] sql = SqlPostsBroken -> "fca2574a3328b23546fb8c57db1540dabaf0c532954f3aabcaca6e55e8e45ba7"
      [] sql = SqlTags -> "28bfb824e309e33de5154cd0cf7c95739a8bf41288195c5400d41a05611ba5a5"

\* db.ExecContext(ctx, migrationsTable): CREATE TABLE IF NOT EXISTS _dbkit_migrations
SqlEnsureTable(d, ok) ==
    IF ok THEN [db |-> [d EXCEPT !.table = TRUE], err |-> Nil]
    ELSE [db |-> d, err |-> ErrConn]

\* tx.ExecContext(ctx, m.SQL) inside the physical transaction
SqlMigration(t, m, ok) ==
    IF t.state # "open" THEN [tx |-> t, err |-> ErrTxDone]
    ELSE IF ~ok THEN [tx |-> [t EXCEPT !.aborted = TRUE], err |-> ErrConn]
    ELSE IF t.aborted THEN [tx |-> t, err |-> PgError("25P02")]
    ELSE IF ~ValidSQL(m.sql) THEN [tx |-> [t EXCEPT !.aborted = TRUE], err |-> PgError("42601")]
    ELSE [tx |-> [t EXCEPT !.pending = Append(@, [kind |-> "schema", id |-> m.id, sql |-> m.sql])],
          err |-> Nil]

\* the ids with a ledger row visible to a statement of transaction t
LedgerIds(t, d) ==
    {d.ledger[i].id : i \in 1 .. Len(d.ledger)}
        \cup {t.pending[i].id : i \in {j \in 1 .. Len(t.pending) : t.pending[j].kind = "ledger"}}

\* mutant of SqlInsertLedger: the table has no primary key
SqlInsertLedger_NoPrimaryKey(t, d, id, checksum, ok) ==
    IF t.state # "open" THEN [tx |-> t, err |-> ErrTxDone]
    ELSE IF ~ok THEN [tx |-> [t EXCEPT !.aborted = TRUE], err |-> ErrConn]
    ELSE IF t.aborted THEN [tx |-> t, err |-> PgError("25P02")]
    ELSE IF ~d.table THEN [tx |-> [t EXCEPT !.aborted = TRUE], err |-> PgError("42P01")]
    ELSE [tx |-> [t EXCEPT !.pending =
                       Append(@, [kind |-> "ledger", id |-> id, checksum |-> checksum,
                                  at |-> t.at])],
          err |-> Nil]

\* INSERT INTO _dbkit_migrations (id, ...) inside the physical transaction; id is the
\* primary key, applied_at takes its default NOW()
SqlInsertLedger(t, d, id, checksum, ok) ==
    IF t.state # "open" THEN [tx |-> t, err |-> ErrTxDone]
    ELSE IF ~ok THEN [tx |-> [t EXCEPT !.aborted = TRUE], err |-> ErrConn]
    ELSE IF t.aborted THEN [tx |-> t, err |-> PgError("25P02")]
    ELSE IF ~d.table THEN [tx |-> [t EXCEPT !.aborted = TRUE], err |-> PgError("42P01")]
    ELSE IF id \in LedgerIds(t, d)
         THEN [tx |-> [t EXCEPT !.aborted = TRUE], err |-> PgError("23505")]
    ELSE [tx |-> [t EXCEPT !.pending =
                       Append(@, [kind |-> "ledger", id |-> id, checksum |-> checksum,
                                  at |-> t.at])],
          err |-> Nil]

\* an INSERT of a key that another open transaction has inserted and not yet committed
\* waits until that transaction ends
LedgerInsertWaits(txs, c, id) ==
    \E o \in DOMAIN txs :
        /\ o # c
        /\ txs[o].state = "open"
        /\ \E i \in 1 .. Len(txs[o].pending) :
               txs[o].pending[i].kind = "ledger" /\ txs[o].pending[i].id = id

\* the server clock read when a transaction starts: later than every reading stored in
\* the ledger or held by an open transaction (only the order of readings matters)
Now(d, txs) ==
    LET used == {d.applied_at[i] : i \in 1 .. Len(d.applied_at)}
                    \cup {txs[o].at : o \in DOMAIN txs}
    IN 1 + CHOOSE n \in used : \A k \in used : k <= n

\* mutant of getAppliedMigrations: the rows read are not put into the map
getAppliedMigrations_NoRows(d, ok) ==
    IF ~ok \/ ~d.table
    THEN [applied |-> << >>, err |-> wrapError(IF ok THEN PgError("42P01") ELSE ErrConn,
                                              "Migrate.GetApplied")]
    ELSE [applied |-> << >>, err |-> Nil]

\* getAppliedMigrations: the id -> checksum map of the ledger rows
getAppliedMigrations(d, ok) ==
    IF ~ok \/ ~d.table
    THEN [applied |-> << >>, err |-> wrapError(IF ok THEN PgError("42P01") ELSE ErrConn,
                                              "Migrate.GetApplied")]
    ELSE [applied |-> [id \in {d.ledger[i].id : i \in 1 .. Len(d.ledger)} |->
                          LET last == CHOOSE i \in 1 .. Len(d.ledger) :
                                          /\ d.ledger[i].id = id
                                          /\ \A j \in 1 .. Len(d.ledger) :
                                                 d.ledger[j].id = id => j <= i
                          IN d.ledger[last].checksum],
          err |-> Nil]

\* mutant of StatusEntry: ChecksumMatch is set without looking at the ledger's checksum
StatusEntry_MatchWhenApplied(applied, m) ==
    [id |-> m.id, checksum |-> checksumSQL(m.sql),
     applied |-> m.id \in DOMAIN applied,
     checksumMatch |-> m.id \in DOMAIN applied]

\* MigrationStatus, the entry built for migration m from the map read
StatusEntry(applied, m) ==
    [id |-> m.id, checksum |-> checksumSQL(m.sql),
     applied |-> m.id \in DOMAIN applied,
     checksumMatch |-> IF m.id \in DOMAIN applied
                       THEN applied[m.id] = checksumSQL(m.sql) ELSE FALSE]

\* func (db *DBKit) MigrationStatus(ctx, migrations): the ledger table is created if
\* absent, the ledger is read, one entry is built per migration
MigrationStatus(d, list, okTable, okRead) ==
    LET t == SqlEnsureTable(d, okTable)
        r == getAppliedMigrations(t.db, okRead)
    IN IF t.err # Nil
       THEN [db |-> t.db, entries |-> "nil",
             err |-> [kind |-> "Error", code |-> "UNKNOWN", op |-> "MigrationStatus",
                      msg |-> "failed to create migrations table", cause |-> t.err]]
       ELSE IF r.err # Nil THEN [db |-> t.db, entries |-> "nil", err |-> r.err]
       ELSE [db |-> t.db,
             entries |-> [i \in 1 .. Len(list) |-> StatusEntry(r.applied, list[i])],
             err |-> Nil]

\* lexical rank of the migration ids
IdRank(id) == CASE id = "a_001" -> 1 [] id = "b_002" -> 2 [] id = "c_003" -> 3

\* the orders in which n rows can come back
RowOrders(n) == {p \in [1 .. n -> 1 .. n] : \A i, j \in 1 .. n : p[i] = p[j] => i = j}

\* mutant of AppliedAtOrders: the rows are ordered by id
AppliedAtOrders_ById(d) ==
    {p \in RowOrders(Len(d.ledger)) :
        \A i, j \in 1 .. Len(d.ledger) :
            i < j => IdRank(d.ledger[p[i]].id) <= IdRank(d.ledger[p[j]].id)}

\* ORDER BY applied_at ASC: the orders the database may return the ledger rows in
\* (rows with equal applied_at come in any order)
AppliedAtOrders(d) ==
    {p \in RowOrders(Len(d.ledger)) :
        \A i, j \in 1 .. Len(d.ledger) :
            i < j => d.applied_at[p[i]] <= d.applied_at[p[j]]}

\* func (db *DBKit) GetAppliedMigrations(ctx): the ledger table is created if absent,
\* the rows are selected in the order the database returns them and copied one to one
GetAppliedMigrations(d, order, okTable, okRead) ==
    LET t == SqlEnsureTable(d, okTable)
    IN IF t.err # Nil
       THEN [db |-> t.db, rows |-> "nil",
             err |-> [kind |-> "Error", code |-> "UNKNOWN", op |-> "GetAppliedMigrations",
                      msg |-> "failed to create migrations table", cause |-> t.err]]
       ELSE IF ~okRead
            THEN [db |-> t.db, rows |-> "nil", err |-> wrapError(ErrConn, "GetAppliedMigrations")]
       ELSE [db |-> t.db,
             rows |-> [i \in 1 .. Len(d.ledger) |->
                          [id |-> d.ledger[order[i]].id,
                           checksum |-> d.ledger[order[i]].checksum,
                           appliedAt |-> d.applied_at[order[i]]]],
             err |-> Nil]

\* the error Migrate returns on a checksum mismatch
DriftError(id, existing, checksum) ==
    [kind |-> "Error", code |-> "UNKNOWN", op |-> "Migrate",
     msg |-> "migration " \o id \o " has changed (checksum mismatch: expected "
              \o existing \o ", got " \o checksum \o ")",
     cause |-> Nil]

\* mutant of Decide: an id present in the ledger is skipped without comparing checksums
Decide_IgnoresChecksum(applied, m) ==
    IF m.id \in DOMAIN applied THEN "skip" ELSE "apply"

\* mutant of Decide: the ledger map is not consulted
Decide_IgnoresLedger(applied, m) == "apply"

\* Migrate's decision for migration m against the map read at the start of the call
Decide(applied, m) ==
    IF m.id \in DOMAIN applied
    THEN IF applied[m.id] # checksumSQL(m.sql) THEN "drift" ELSE "skip"
    ELSE "apply"

\* mutant of ApplyExec: the SQL runs on db (autocommit), not on the transaction
ApplyExec_OutsideTx(t, d, m, ok) ==
    LET r == SqlMigration([NoTx EXCEPT !.state = "open"], m, ok)
    IN [tx |-> t, db |-> ApplyWrites(d, r.tx.pending),
        err |-> IF r.err # Nil
                THEN [kind |-> "Error", code |-> "UNKNOWN", op |-> "Migrate.Apply",
                      msg |-> "migration " \o m.id \o " failed", cause |-> r.err]
                ELSE Nil]

\* applyMigration's callback, first statement: the migration SQL runs on the scope
ApplyExec(t, d, m, ok) ==
    LET r == SqlMigration(t, m, ok)
    IN [tx |-> r.tx, db |-> d,
        err |-> IF r.err # Nil
                THEN [kind |-> "Error", code |-> "UNKNOWN", op |-> "Migrate.Apply",
                      msg |-> "migration " \o m.id \o " failed", cause |-> r.err]
                ELSE Nil]

\* applyMigration's callback, second statement: the ledger row is inserted on the scope
ApplyRecord(t, d, m, checksum, ok) ==
    LET r == SqlInsertLedger(t, d, m.id, checksum, ok)
    IN [tx |-> r.tx, err |-> wrapError(r.err, "Migrate.Record")]

\* mutant of MigrationAt: the list is walked in id order
MigrationAt_SortedById(list, i) ==
    LET before(j) == Cardinality({k \in 1 .. Len(list) :
                         \/ IdRank(list[k].id) < IdRank(list[j].id)
                         \/ (IdRank(list[k].id) = IdRank(list[j].id) /\ k < j)})
    IN list[CHOOSE j \in 1 .. Len(list) : before(j) = i - 1]

\* for _, m := range migrations: the migration of iteration i
MigrationAt(list, i) == list[i]

NoResult == [applied |-> <<>>, skipped |-> <<>>]
NoMigrate ==
    [pc |-> "idle", list |-> <<>>, idx |-> 0, applied |-> << >>, result |-> NoResult,
     ret |-> [kind |-> "none"], start |-> EmptyDb, exec |-> <<>>, fault |-> FALSE,
     lost |-> FALSE, again |-> FALSE, retry |-> 0,
     prev |-> [list |-> <<>>, ok |-> FALSE, at |-> 0]]

(* --------------------- versioning.go: RetryOnConflict ------------------ *)
MaxRetries == 3

\* var ErrConflict = errors.New("dbkit: optimistic locking conflict - record was modified")
ErrConflict == [kind |-> "sentinel", name |-> "dbkit: optimistic locking conflict - record was modified"]

\* the error UpdateWithVersion and CheckVersion return on a version mismatch
ConflictError(op) ==
    [kind |-> "Error", code |-> "CONFLICT", op |-> op,
     msg |-> "optimistic locking conflict - record was modified", cause |-> ErrConflict]

\* mutant of IsConflict: the error is compared with ErrConflict, its chain is not walked
IsConflict_NoUnwrap(err) == err = ErrConflict

\* func IsConflict(err error) bool: errors.Is(err, ErrConflict) walks the Unwrap chain;
\* (*Error).Is has no case for ErrConflict, (*Error).Unwrap gives the cause
RECURSIVE IsConflict(_)
IsConflict(err) ==
    \/ err = ErrConflict
    \/ CASE err.kind = "Error" -> IsConflict(err.cause)
          [] err.kind = "errorf" -> IsConflict(err.wraps)
          [] OTHER -> FALSE

\* the RetryOnConflict call: not made yet
NoRetry == [pc |-> "idle", maxRetries |-> 0, i |-> 0, lastErr |-> Nil, calls |-> <<>>,
            ret |-> [kind |-> "none"]]

\* RetryOnConflict, the loop body, fn having returned err
RetryBody(r, err) ==
    IF err = Nil THEN [r EXCEPT !.pc = "returned", !.ret = [kind |-> "return", err |-> Nil]]
    ELSE IF ~IsConflict(err)
         THEN [r EXCEPT !.pc = "returned", !.ret = [kind |-> "return", err |-> err]]
    ELSE [r EXCEPT !.lastErr = err, !.i = @ + 1]

(* --------------------------- initial state ----------------------------- *)
NoRet == [kind |-> "none"]
\* a goroutine holding the scope: not inside Tx.Transaction, no nested scope open
NoRoutine == [pc |-> "run", id |-> 0, stack |-> <<>>]

Init ==
    /\ db = EmptyDb
    /\ tx = [c \in Callers |-> NoTx]
    /\ mode = "idle"
    /\ stack = <<>>
    /\ lastErr = Nil
    /\ ret = NoRet
    /\ fnRet = NoRet
    /\ wrote = <<>>
    /\ scopes = <<>>
    /\ lastOp = [op |-> "none"]
    /\ nOps = 0
    /\ names = <<>>
    /\ co = [c \in Callers |-> NoRoutine]
    /\ log = <<>>
    /\ rt = NoRetry
    /\ mig = [c \in Callers |-> NoMigrate]

\* the environment's choice for one statement or connection operation: it succeeds or fails
Outcomes == BOOLEAN

\* the savepoint ids of the nested scopes around the running callback, outermost first
Path == [i \in 1 .. Len(stack) - 1 |-> stack[i + 1]]
Written == {wrote[i].w : i \in 1 .. Len(wrote)}

(* -------------------- db.Transaction with a callback ------------------- *)
\* db.Transaction(ctx, fn) is called: BeginTx, then fn starts
Transaction ==
    /\ mode = "idle"
    /\ \E ok \in Outcomes :
         LET r == TransactionBegin(ok)
         IN /\ tx' = [tx EXCEPT ![1] = r.tx]
            /\ IF r.err # Nil
               THEN /\ mode' = "returned"
                    /\ ret' = [kind |-> "return", err |-> r.err]
                    /\ stack' = stack
               ELSE /\ mode' = "callback"
                    /\ ret' = ret
                    /\ stack' = <<0>>
    /\ UNCHANGED <<mig, log, rt, names, co, db, lastErr, fnRet, wrote, scopes, lastOp, nOps>>

\* the running callback (or the manual client) writes a row through its scope; rows
\* are numbered in the order they are written
Write ==
    /\ mode \in {"callback", "manual"}
    /\ Cardinality(Written) < MaxWrites
    /\ \E ok \in Outcomes :
         LET w == Cardinality(Written) + 1
             r == SqlWrite(tx[1], w, ok)
         IN /\ tx' = [tx EXCEPT ![1] = r.tx]
            /\ wrote' = IF r.err = Nil THEN Append(wrote, [w |-> w, path |-> Path])
                        ELSE wrote
    /\ UNCHANGED <<mig, log, rt, names, co, db, mode, stack, lastErr, ret, fnRet, scopes, lastOp, nOps>>

\* the running callback calls tx.Transaction(ctx, fn2): SAVEPOINT, then fn2 starts
NestedTransaction ==
    /\ mode = "callback"
    /\ Len(stack) <= MaxDepth
    /\ tx[1].seq < MaxSavepoints
    /\ \E ok \in Outcomes :
         LET r == NestedBegin(tx[1], ok)
         IN /\ tx' = [tx EXCEPT ![1] = r.tx]
            /\ IF r.err # Nil
               THEN /\ lastErr' = r.err
                    /\ stack' = stack
                    /\ scopes' = Append(scopes, [id |-> r.id, started |-> FALSE,
                                                 fnErr |-> Nil, err |-> r.err, rb |-> Nil])
               ELSE /\ lastErr' = lastErr
                    /\ stack' = Append(stack, r.id)
                    /\ scopes' = scopes
            /\ names' = Append(names, SavepointName(r.id))
    /\ UNCHANGED <<mig, log, rt, co, db, mode, ret, fnRet, wrote, lastOp, nOps>>

\* what a callback may return: nil, an error of its own, or the error a nested call gave it
FnResults == {Nil, UserErr} \cup {lastErr}

\* the callback of a nested scope returns e: RELEASE or ROLLBACK TO, back in the parent's fn
NestedReturn ==
    /\ mode = "callback"
    /\ Len(stack) > 1
    /\ \E e \in FnResults : \E ok \in Outcomes :
         LET id == stack[Len(stack)]
             r == NestedEnd(tx[1], id, e, ok)
         IN /\ tx' = [tx EXCEPT ![1] = r.tx]
            /\ lastErr' = r.err
            /\ scopes' = Append(scopes,
                   [id |-> id, started |-> TRUE, fnErr |-> e, err |-> r.err,
                    rb |-> IF e # Nil THEN SqlRollbackTo(tx[1], SavepointName(id), ok).err
                           ELSE Nil])
    /\ stack' = SubSeq(stack, 1, Len(stack) - 1)
    /\ UNCHANGED <<mig, log, rt, names, co, db, mode, ret, fnRet, wrote, lastOp, nOps>>

\* the top-level callback returns e: commit or rollback, db.Transaction returns
Return ==
    /\ mode = "callback"
    /\ Len(stack) = 1
    /\ \E e \in FnResults : \E ok \in Outcomes :
         LET r == TransactionEnd(tx[1], db, e, ok)
         IN /\ tx' = [tx EXCEPT ![1] = r.tx]
            /\ db' = r.db
            /\ fnRet' = [kind |-> "return", err |-> e]
            /\ ret' = [kind |-> "return", err |-> r.err]
            /\ scopes' = Append(scopes,
                   [id |-> 0, started |-> TRUE, fnErr |-> e, err |-> r.err,
                    rb |-> IF e # Nil THEN Rollback(tx[1], ok).err ELSE Nil])
    /\ mode' = "returned"
    /\ stack' = <<>>
    /\ UNCHANGED <<mig, log, rt, names, co, lastErr, wrote, lastOp, nOps>>

\* the running callback panics at any depth: nested frames have no recover, the
\* deferred function of TransactionWithOptions rolls back and panics again
Panic ==
    /\ mode = "callback"
    /\ \E ok \in Outcomes :
         LET r == TransactionRecover(tx[1], UserErr, ok)
         IN /\ tx' = [tx EXCEPT ![1] = r.tx]
            /\ ret' = [kind |-> "panic", value |-> r.panic]
    /\ fnRet' = [kind |-> "panic", value |-> UserErr]
    /\ mode' = "returned"
    /\ stack' = <<>>
    /\ UNCHANGED <<mig, log, rt, names, co, db, lastErr, wrote, scopes, lastOp, nOps>>

\* the callback of the innermost nested scope panics and a callback further out, the
\* one of the scope at depth keep, recovers the panic (a deferred recover() of its
\* own) and runs on. Tx.Transaction has no deferred function: the frames unwound send
\* nothing, their savepoints stay defined and what was written stays pending
NestedPanicRecovered ==
    /\ mode = "callback"
    /\ Len(stack) > 1
    /\ \E keep \in 1 .. Len(stack) - 1 :
         /\ stack' = SubSeq(stack, 1, keep)
         /\ scopes' = scopes \o
                [k \in 1 .. Len(stack) - keep |->
                    [id |-> stack[Len(stack) + 1 - k], started |-> TRUE,
                     fnErr |-> [kind |-> "panic", value |-> UserErr],
                     err |-> [kind |-> "none"], rb |-> Nil]]
    /\ UNCHANGED <<mig, log, rt, names, co, db, tx, mode, lastErr, ret, fnRet, wrote, lastOp, nOps>>

(* ------------------------- manual control ------------------------------ *)
\* db.Begin(ctx)
Begin ==
    /\ mode = "idle"
    /\ \E ok \in Outcomes :
         LET r == BeginWithOptions(ok)
         IN /\ tx' = [tx EXCEPT ![1] = r.tx]
            /\ IF r.err # Nil
               THEN /\ mode' = "returned"
                    /\ ret' = [kind |-> "return", err |-> r.err]
               ELSE /\ mode' = "manual"
                    /\ ret' = ret
    /\ UNCHANGED <<mig, log, rt, names, co, db, stack, lastErr, fnRet, wrote, scopes, lastOp, nOps>>

\* tx.Commit() on the scope db.Begin returned
ManualCommit ==
    /\ mode = "manual"
    /\ nOps < MaxManualOps
    /\ \E ok \in Outcomes :
         LET r == Commit(tx[1], db, ok)
         IN /\ tx' = [tx EXCEPT ![1] = r.tx]
            /\ db' = r.db
            /\ lastOp' = [op |-> "Commit", before |-> tx[1].state, err |-> r.err]
    /\ nOps' = nOps + 1
    /\ UNCHANGED <<mig, log, rt, names, co, mode, stack, lastErr, ret, fnRet, wrote, scopes>>

\* tx.Rollback() on the scope db.Begin returned
ManualRollback ==
    /\ mode = "manual"
    /\ nOps < MaxManualOps
    /\ \E ok \in Outcomes :
         LET r == Rollback(tx[1], ok)
         IN /\ tx' = [tx EXCEPT ![1] = r.tx]
            /\ lastOp' = [op |-> "Rollback", before |-> tx[1].state, err |-> r.err]
    /\ nOps' = nOps + 1
    /\ UNCHANGED <<mig, log, rt, names, co, db, mode, stack, lastErr, ret, fnRet, wrote, scopes>>

\* the names the manual client gives its savepoints
ManualNames == {"test_savepoint", "other_savepoint"}

\* tx.Savepoint(ctx, name) on the scope db.Begin returned
ManualSavepoint ==
    /\ mode = "manual"
    /\ Len(log) < MaxSavepointOps
    /\ \E name \in ManualNames : \E ok \in Outcomes :
         LET r == Savepoint(tx[1], name, ok)
         IN /\ tx' = [tx EXCEPT ![1] = r.tx]
            /\ log' = Append(log, [op |-> "Savepoint", name |-> name, err |-> r.err,
                                    n |-> Len(wrote)])
    /\ UNCHANGED <<mig, rt, names, co, db, mode, stack, lastErr, ret, fnRet, wrote, scopes,
                   lastOp, nOps>>

\* tx.RollbackTo(ctx, name) on the scope db.Begin returned
ManualRollbackTo ==
    /\ mode = "manual"
    /\ Len(log) < MaxSavepointOps
    /\ \E name \in ManualNames : \E ok \in Outcomes :
         LET r == RollbackTo(tx[1], name, ok)
         IN /\ tx' = [tx EXCEPT ![1] = r.tx]
            /\ log' = Append(log, [op |-> "RollbackTo", name |-> name, err |-> r.err,
                                    n |-> Len(wrote)])
    /\ UNCHANGED <<mig, rt, names, co, db, mode, stack, lastErr, ret, fnRet, wrote, scopes,
                   lastOp, nOps>>

\* tx.ReleaseSavepoint(ctx, name) on the scope db.Begin returned
ManualReleaseSavepoint ==
    /\ mode = "manual"
    /\ Len(log) < MaxSavepointOps
    /\ \E name \in ManualNames : \E ok \in Outcomes :
         LET r == ReleaseSavepoint(tx[1], name, ok)
         IN /\ tx' = [tx EXCEPT ![1] = r.tx]
            /\ log' = Append(log, [op |-> "ReleaseSavepoint", name |-> name, err |-> r.err,
                                    n |-> Len(wrote)])
    /\ UNCHANGED <<mig, rt, names, co, db, mode, stack, lastErr, ret, fnRet, wrote, scopes,
                   lastOp, nOps>>

(* ------------------------------ Migrate -------------------------------- *)
\* mutant of MigrateFails: the failed migration is passed over and the loop goes on
MigrateFails_Continues(g, err) ==
    IF g.pc \in {"ensure", "read"}
    THEN [g EXCEPT !.pc = "returned",
                   !.ret = [kind |-> "return", result |-> Nil, err |-> err],
                   !.prev = [list |-> g.list, ok |-> FALSE, at |-> 0]]
    ELSE [g EXCEPT !.pc = "loop", !.idx = @ + 1]

\* mutant of MigrateFails: the result built so far is returned with the error
MigrateFails_PartialResult(g, err) ==
    [g EXCEPT !.pc = "returned",
              !.ret = [kind |-> "return", result |-> g.result, err |-> err],
              !.prev = [list |-> g.list, ok |-> FALSE, at |-> 0]]

\* Migrate returns (nil, err): the call is over
MigrateFails(g, err) ==
    [g EXCEPT !.pc = "returned",
              !.ret = [kind |-> "return", result |-> Nil, err |-> err],
              !.prev = [list |-> g.list, ok |-> FALSE, at |-> 0]]

\* list is the list of the call before, which failed at the SQL or the ledger insert
\* of migration prev.at, with that migration's SQL now one the database accepts and
\* everything else as it was
FixedList(prev, list) ==
    /\ prev.at > 0
    /\ Len(list) = Len(prev.list)
    /\ \A i \in 1 .. Len(list) : i # prev.at => list[i] = prev.list[i]
    /\ list[prev.at].id = prev.list[prev.at].id
    /\ ValidSQL(list[prev.at].sql)

\* caller c calls Migrate(ctx, list) with one of the lists
MigrateCallWith(c, lists) ==
    /\ mig[c].pc = "idle"
    /\ \E list \in lists :
         mig' = [mig EXCEPT ![c] =
                    [pc |-> "ensure", list |-> list, idx |-> 1, applied |-> << >>,
                     result |-> NoResult, ret |-> [kind |-> "none"], start |-> db,
                     exec |-> <<>>, fault |-> FALSE, lost |-> FALSE,
                     again |-> (mig[c].prev.ok /\ mig[c].prev.list = list),
                     retry |-> IF FixedList(mig[c].prev, list) THEN mig[c].prev.at ELSE 0,
                     prev |-> [list |-> list, ok |-> FALSE, at |-> 0]]]
    /\ UNCHANGED <<db, tx, txVars>>

\* the call returned because the SQL or the ledger insert of migration k failed: the
\* caller knows from the error which one it has to fix
FailedAt(g, k) == IF g.pc = "returned" THEN [g EXCEPT !.prev.at = k] ELSE g

\* caller c calls Migrate(ctx, list)
MigrateCall(c) == MigrateCallWith(c, Lists)

\* caller c calls Migrate(ctx, list), with the lists of the concurrent runs
RaceCall(c) == MigrateCallWith(c, RaceLists)

\* caller c has looked at what Migrate (or a report) returned and goes on; all it
\* keeps is the list it passed to Migrate, if that call succeeded or failed while
\* applying a migration
CallerMovesOn(c) ==
    /\ mig[c].pc \in {"returned", "reported"}
    /\ mig' = [mig EXCEPT ![c] =
           IF mig[c].prev.ok \/ mig[c].prev.at > 0
           THEN [NoMigrate EXCEPT !.prev = mig[c].prev] ELSE NoMigrate]
    /\ UNCHANGED <<db, tx, txVars>>

\* caller c calls MigrationStatus(ctx, list) and gets the report
MigrationStatusCall(c) ==
    /\ mig[c].pc = "idle"
    /\ \E list \in ReportLists : \E okTable \in Outcomes : \E okRead \in Outcomes :
         LET r == MigrationStatus(db, list, okTable, okRead)
         IN /\ db' = r.db
            /\ mig' = [mig EXCEPT ![c] =
                   [NoMigrate EXCEPT !.pc = "reported", !.list = list, !.start = db,
                                     !.ret = [kind |-> "status", entries |-> r.entries,
                                              err |-> r.err],
                                     !.prev = mig[c].prev]]
    /\ UNCHANGED <<tx, txVars>>

\* caller c calls GetAppliedMigrations(ctx) and gets the rows
GetAppliedMigrationsCall(c) ==
    /\ mig[c].pc = "idle"
    /\ \E order \in AppliedAtOrders(db) : \E okTable \in Outcomes : \E okRead \in Outcomes :
         LET r == GetAppliedMigrations(db, order, okTable, okRead)
         IN /\ db' = r.db
            /\ mig' = [mig EXCEPT ![c] =
                   [NoMigrate EXCEPT !.pc = "reported", !.start = db,
                                     !.ret = [kind |-> "applied", rows |-> r.rows,
                                              err |-> r.err],
                                     !.prev = mig[c].prev]]
    /\ UNCHANGED <<tx, txVars>>

\* the ledger table is created if absent
MigrateEnsureTable(c) ==
    /\ mig[c].pc = "ensure"
    /\ \E ok \in Outcomes :
         LET r == SqlEnsureTable(db, ok)
             g == [mig[c] EXCEPT !.fault = @ \/ ~ok]
         IN /\ db' = r.db
            /\ mig' = [mig EXCEPT ![c] =
                   IF r.err # Nil
                   THEN MigrateFails(g, [kind |-> "Error", code |-> "UNKNOWN", op |-> "Migrate",
                                         msg |-> "failed to create migrations table",
                                         cause |-> r.err])
                   ELSE [g EXCEPT !.pc = "read"]]
    /\ UNCHANGED <<tx, txVars>>

\* the ledger is read, once, into the id -> checksum map
MigrateGetApplied(c) ==
    /\ mig[c].pc = "read"
    /\ \E ok \in Outcomes :
         LET r == getAppliedMigrations(db, ok)
             g == [mig[c] EXCEPT !.fault = @ \/ ~ok]
         IN mig' = [mig EXCEPT ![c] =
                IF r.err # Nil THEN MigrateFails(g, r.err)
                ELSE [g EXCEPT !.pc = "loop", !.applied = r.applied]]
    /\ UNCHANGED <<db, tx, txVars>>

\* the loop is over: Migrate returns (result, nil)
MigrateReturn(c) ==
    /\ mig[c].pc = "loop"
    /\ mig[c].idx > Len(mig[c].list)
    /\ mig' = [mig EXCEPT ![c] =
           [@ EXCEPT !.pc = "returned",
                     !.ret = [kind |-> "return", result |-> mig[c].result, err |-> Nil],
                     !.prev = [list |-> mig[c].list, ok |-> TRUE, at |-> 0]]]
    /\ UNCHANGED <<db, tx, txVars>>

\* mutant of MigrateSkip: the id is passed over without being added to Skipped
MigrateSkip_NotReported(c) ==
    /\ mig[c].pc = "loop"
    /\ mig[c].idx <= Len(mig[c].list)
    /\ Decide(mig[c].applied, MigrationAt(mig[c].list, mig[c].idx)) = "skip"
    /\ mig' = [mig EXCEPT ![c] = [@ EXCEPT !.idx = @ + 1]]
    /\ UNCHANGED <<db, tx, txVars>>

\* the next migration is in the map with the same checksum: skipped
MigrateSkip(c) ==
    /\ mig[c].pc = "loop"
    /\ mig[c].idx <= Len(mig[c].list)
    /\ LET m == MigrationAt(mig[c].list, mig[c].idx)
       IN /\ Decide(mig[c].applied, m) = "skip"
          /\ mig' = [mig EXCEPT ![c] =
                 [@ EXCEPT !.result.skipped = Append(@, m.id), !.idx = @ + 1]]
    /\ UNCHANGED <<db, tx, txVars>>

\* the next migration is in the map with another checksum: Migrate returns the error
MigrateDrift(c) ==
    /\ mig[c].pc = "loop"
    /\ mig[c].idx <= Len(mig[c].list)
    /\ LET m == MigrationAt(mig[c].list, mig[c].idx)
       IN /\ Decide(mig[c].applied, m) = "drift"
          /\ mig' = [mig EXCEPT ![c] =
                 MigrateFails(@, DriftError(m.id, mig[c].applied[m.id], checksumSQL(m.sql)))]
    /\ UNCHANGED <<db, tx, txVars>>

\* the next migration is not in the map: applyMigration opens its transaction
MigrateApplyBegin(c) ==
    /\ mig[c].pc = "loop"
    /\ mig[c].idx <= Len(mig[c].list)
    /\ Decide(mig[c].applied, MigrationAt(mig[c].list, mig[c].idx)) = "apply"
    /\ \E ok \in Outcomes :
         LET r == TransactionBegin(ok)
             g == [mig[c] EXCEPT !.fault = @ \/ ~ok]
         IN /\ tx' = [tx EXCEPT ![c] = IF r.err # Nil THEN NoTx
                                       ELSE [r.tx EXCEPT !.at = Now(db, tx)]]
            /\ mig' = [mig EXCEPT ![c] =
                   IF r.err # Nil THEN MigrateFails(g, r.err) ELSE [g EXCEPT !.pc = "exec"]]
    /\ UNCHANGED <<db, txVars>>

\* applyMigration's callback executes the migration SQL; when that fails the callback
\* returns the error, the transaction is rolled back and Migrate returns
MigrateApplyExec(c) ==
    /\ mig[c].pc = "exec"
    /\ \E ok \in Outcomes : \E okEnd \in Outcomes :
         LET m == MigrationAt(mig[c].list, mig[c].idx)
             r == ApplyExec(tx[c], db, m, ok)
             e == TransactionEnd(r.tx, r.db, r.err, okEnd)
             g == [mig[c] EXCEPT !.fault = @ \/ ~ok, !.exec = Append(@, m)]
         IN IF r.err # Nil
            THEN /\ tx' = [tx EXCEPT ![c] = NoTx]
                 /\ db' = e.db
                 /\ mig' = [mig EXCEPT ![c] =
                        FailedAt(MigrateFails([g EXCEPT !.fault = @ \/ ~okEnd], e.err), g.idx)]
            ELSE /\ okEnd
                 /\ tx' = [tx EXCEPT ![c] = r.tx]
                 /\ db' = r.db
                 /\ mig' = [mig EXCEPT ![c] = [g EXCEPT !.pc = "record"]]
    /\ UNCHANGED txVars

\* the callback inserts the ledger row; when that fails it returns the error, the
\* transaction is rolled back and Migrate returns
MigrateApplyRecord(c) ==
    /\ mig[c].pc = "record"
    /\ ~LedgerInsertWaits(tx, c, mig[c].list[mig[c].idx].id)
    /\ \E ok \in Outcomes : \E okEnd \in Outcomes :
         LET m == MigrationAt(mig[c].list, mig[c].idx)
             r == ApplyRecord(tx[c], db, m, checksumSQL(m.sql), ok)
             e == TransactionEnd(r.tx, db, r.err, okEnd)
             dup == SqlInsertLedger(tx[c], db, m.id, checksumSQL(m.sql), ok).err
                        = PgError("23505")
             g == [mig[c] EXCEPT !.fault = @ \/ ~ok, !.lost = @ \/ dup]
         IN IF r.err # Nil
            THEN /\ tx' = [tx EXCEPT ![c] = NoTx]
                 /\ db' = e.db
                 /\ mig' = [mig EXCEPT ![c] =
                        FailedAt(MigrateFails([g EXCEPT !.fault = @ \/ ~okEnd], e.err), g.idx)]
            ELSE /\ okEnd
                 /\ tx' = [tx EXCEPT ![c] = r.tx]
                 /\ db' = db
                 /\ mig' = [mig EXCEPT ![c] = [g EXCEPT !.pc = "commit"]]
    /\ UNCHANGED txVars

\* mutant of MigrateApplyCommit: the map is read again after each migration applied
MigrateApplyCommit_RefreshesMap(c) ==
    /\ mig[c].pc = "commit"
    /\ \E ok \in Outcomes :
         LET m == MigrationAt(mig[c].list, mig[c].idx)
             e == TransactionEnd(tx[c], db, Nil, ok)
             g == [mig[c] EXCEPT !.fault = @ \/ ~ok]
         IN /\ tx' = [tx EXCEPT ![c] = NoTx]
            /\ db' = e.db
            /\ mig' = [mig EXCEPT ![c] =
                   IF e.err # Nil THEN MigrateFails(g, e.err)
                   ELSE [g EXCEPT !.pc = "loop", !.idx = @ + 1,
                                  !.applied = getAppliedMigrations(e.db, TRUE).applied,
                                  !.result.applied =
                                      Append(@, [id |-> m.id, checksum |-> checksumSQL(m.sql)])]]
    /\ UNCHANGED txVars

\* the callback returned nil: the transaction commits; Migrate appends to Applied, or
\* returns the commit error
MigrateApplyCommit(c) ==
    /\ mig[c].pc = "commit"
    /\ \E ok \in Outcomes :
         LET m == MigrationAt(mig[c].list, mig[c].idx)
             e == TransactionEnd(tx[c], db, Nil, ok)
             g == [mig[c] EXCEPT !.fault = @ \/ ~ok]
         IN /\ tx' = [tx EXCEPT ![c] = NoTx]
            /\ db' = e.db
            /\ mig' = [mig EXCEPT ![c] =
                   IF e.err # Nil THEN MigrateFails(g, e.err)
                   ELSE [g EXCEPT !.pc = "loop", !.idx = @ + 1,
                                  !.result.applied =
                                      Append(@, [id |-> m.id, checksum |-> checksumSQL(m.sql)])]]
    /\ UNCHANGED txVars

(* ------------- Commit and Rollback called from inside a callback ------- *)
\* the running callback calls Commit() on the scope it was handed (the top-level
\* scope, or the child built by Tx.Transaction around the same bun.Tx)
ScopeCommit ==
    /\ mode = "callback"
    /\ nOps < MaxManualOps
    /\ \E ok \in Outcomes :
         LET r == Commit(tx[1], db, ok)
         IN /\ tx' = [tx EXCEPT ![1] = r.tx]
            /\ db' = r.db
            /\ lastOp' = [op |-> "Commit", before |-> tx[1].state, err |-> r.err]
    /\ nOps' = nOps + 1
    /\ UNCHANGED <<mig, log, rt, names, co, mode, stack, lastErr, ret, fnRet, wrote, scopes>>

\* the running callback calls Rollback() on the scope it was handed
ScopeRollback ==
    /\ mode = "callback"
    /\ nOps < MaxManualOps
    /\ \E ok \in Outcomes :
         LET r == Rollback(tx[1], ok)
         IN /\ tx' = [tx EXCEPT ![1] = r.tx]
            /\ lastOp' = [op |-> "Rollback", before |-> tx[1].state, err |-> r.err]
    /\ nOps' = nOps + 1
    /\ UNCHANGED <<mig, log, rt, names, co, db, mode, stack, lastErr, ret, fnRet, wrote, scopes>>

(* --------------------------- RetryOnConflict --------------------------- *)
\* what fn returns: nil, a conflict (the sentinel, the *Error built around it, the
\* *Error wrapped once more with %w), an error of the caller's, a serialization failure
FnErrors ==
    {Nil, ErrConflict, ConflictError("UpdateWithVersion"),
     Errorf("update", Nil, ConflictError("CheckVersion")),
     UserErr, wrapError(PgError("40001"), "UpdateWithVersion")}

\* RetryOnConflict(ctx, maxRetries, fn) is called
RetryOnConflict ==
    /\ rt.pc = "idle"
    /\ \E n \in (0 - 1) .. MaxRetries :
         rt' = [NoRetry EXCEPT !.pc = "loop", !.maxRetries = n]
    /\ UNCHANGED <<db, tx, mig, mode, stack, lastErr, ret, fnRet, wrote, scopes, lastOp,
                   nOps, names, co, log>>

\* i < maxRetries: fn is called and returns
RetryIteration ==
    /\ rt.pc = "loop"
    /\ rt.i < rt.maxRetries
    /\ \E e \in FnErrors :
         rt' = RetryBody([rt EXCEPT !.calls = Append(@, e)], e)
    /\ UNCHANGED <<db, tx, mig, mode, stack, lastErr, ret, fnRet, wrote, scopes, lastOp,
                   nOps, names, co, log>>

\* the loop is over: return lastErr
RetryExhausted ==
    /\ rt.pc = "loop"
    /\ rt.i >= rt.maxRetries
    /\ rt' = [rt EXCEPT !.pc = "returned", !.ret = [kind |-> "return", err |-> rt.lastErr]]
    /\ UNCHANGED <<db, tx, mig, mode, stack, lastErr, ret, fnRet, wrote, scopes, lastOp,
                   nOps, names, co, log>>

(* ------------- goroutines calling tx.Transaction on one scope ---------- *)
\* goroutine c enters tx.Transaction: the atomic increment gives it its id and name
GoAllocate(c) ==
    /\ mode = "callback"
    /\ co[c].pc = "run"
    /\ Len(co[c].stack) < MaxDepth
    /\ tx[1].seq < MaxSavepoints
    /\ LET a == AddSavepointSeq(tx[1])
       IN /\ tx' = [tx EXCEPT ![1] = a.tx]
          /\ names' = Append(names, SavepointName(a.id))
          /\ co' = [co EXCEPT ![c].pc = "allocated", ![c].id = a.id]
    /\ UNCHANGED <<mig, log, rt, db, mode, stack, lastErr, ret, fnRet, wrote, scopes, lastOp, nOps>>

\* goroutine c issues SAVEPOINT for the id it holds; fn starts if the statement succeeded
GoSavepoint(c) ==
    /\ mode = "callback"
    /\ co[c].pc = "allocated"
    /\ \E ok \in Outcomes :
         LET r == NestedSavepoint(tx[1], co[c].id, ok)
         IN /\ tx' = [tx EXCEPT ![1] = r.tx]
            /\ co' = [co EXCEPT ![c].pc = "run",
                                ![c].stack = IF r.err # Nil THEN @ ELSE Append(@, r.id)]
    /\ UNCHANGED <<mig, log, rt, db, mode, stack, lastErr, ret, fnRet, wrote, scopes, lastOp, nOps, names>>

\* the callback of goroutine c's innermost nested scope returns e
GoReturn(c) ==
    /\ mode = "callback"
    /\ co[c].pc = "run"
    /\ co[c].stack # <<>>
    /\ \E e \in {Nil, UserErr} : \E ok \in Outcomes :
         LET id == co[c].stack[Len(co[c].stack)]
             r == NestedEnd(tx[1], id, e, ok)
         IN tx' = [tx EXCEPT ![1] = r.tx]
    /\ co' = [co EXCEPT ![c].stack = SubSeq(@, 1, Len(@) - 1)]
    /\ UNCHANGED <<mig, log, rt, db, mode, stack, lastErr, ret, fnRet, wrote, scopes, lastOp, nOps, names>>

Next ==
    \/ Transaction
    \/ Write
    \/ NestedTransaction
    \/ NestedReturn
    \/ Return
    \/ Panic
    \/ Begin
    \/ ManualCommit
    \/ ManualRollback

\* one caller running Migrate calls one after the other
NextMigrate ==
    \/ MigrateCall(1)
    \/ CallerMovesOn(1)
    \/ MigrateEnsureTable(1)
    \/ MigrateGetApplied(1)
    \/ MigrateReturn(1)
    \/ MigrateSkip(1)
    \/ MigrateDrift(1)
    \/ MigrateApplyBegin(1)
    \/ MigrateApplyExec(1)
    \/ MigrateApplyRecord(1)
    \/ MigrateApplyCommit(1)

SpecMigrate == Init /\ [][NextMigrate]_vars

\* one caller running Migrate calls and asking for reports between them
NextMigrateReports ==
    \/ NextMigrate
    \/ MigrationStatusCall(1)
    \/ GetAppliedMigrationsCall(1)

SpecMigrateReports == Init /\ [][NextMigrateReports]_vars

\* two callers, each running one Migrate call, on the same database
NextMigrateRace ==
    \E c \in Callers :
        \/ RaceCall(c)
        \/ MigrateEnsureTable(c)
        \/ MigrateGetApplied(c)
        \/ MigrateReturn(c)
        \/ MigrateSkip(c)
        \/ MigrateDrift(c)
        \/ MigrateApplyBegin(c)
        \/ MigrateApplyExec(c)
        \/ MigrateApplyRecord(c)
        \/ MigrateApplyCommit(c)

SpecMigrateRace == Init /\ [][NextMigrateRace]_vars

\* callbacks that may also call Commit and Rollback on their scope
NextScope ==
    \/ Next
    \/ ScopeCommit
    \/ ScopeRollback

SpecScope == Init /\ [][NextScope]_vars

\* one db.Transaction whose callback shares its scope among goroutines
NextSavepoints ==
    \/ Transaction
    \/ \E c \in Callers : GoAllocate(c)
    \/ \E c \in Callers : GoSavepoint(c)
    \/ \E c \in Callers : GoReturn(c)
    \/ Return

SpecSavepoints == Init /\ [][NextSavepoints]_vars

Spec == Init /\ [][Next]_vars

\* callbacks that may recover the panic of a nested callback
NextRecover ==
    \/ Next
    \/ NestedPanicRecovered

SpecRecover == Init /\ [][NextRecover]_vars

\* a manually controlled scope with named savepoints
NextManual ==
    \/ Begin
    \/ Write
    \/ ManualSavepoint
    \/ ManualRollbackTo
    \/ ManualReleaseSavepoint
    \/ ManualCommit
    \/ ManualRollback

SpecManual == Init /\ [][NextManual]_vars

\* one RetryOnConflict call
NextRetry ==
    \/ RetryOnConflict
    \/ RetryIteration
    \/ RetryExhausted

SpecRetry == Init /\ [][NextRetry]_vars

(* ------------------------------ claims --------------------------------- *)
Returned(e) == ret = [kind |-> "return", err |-> e]
Issued(cmd) == \E i \in 1 .. Len(tx[1].cmds) : tx[1].cmds[i] = cmd
\* the nested scope with this savepoint id ran its callback, which returned an error
ScopeFailed(id) ==
    \E j \in 1 .. Len(scopes) :
        scopes[j].id = id /\ scopes[j].started /\ scopes[j].fnErr # Nil

\* C1 (nested savepoint isolation): once db.Transaction has committed, every row
\* written by the top-level scope itself is durable, and no row written by a nested
\* scope whose callback returned an error is durable.
C1_NestedSavepointIsolation ==
    Returned(Nil) =>
        \A i \in 1 .. Len(wrote) :
            /\ wrote[i].path = <<>> => wrote[i].w \in db.rows
            /\ (wrote[i].path # <<>> /\ ScopeFailed(wrote[i].path[Len(wrote[i].path)]))
                   => wrote[i].w \notin db.rows

\* W1 by the outer scope, W2 by nested scope sp_1 whose callback failed, W3 by the
\* outer scope, outer commit: W1 and W3 durable, W2 not
C1_Witness ==
    /\ Returned(Nil)
    /\ wrote = <<[w |-> 1, path |-> <<>>], [w |-> 2, path |-> <<1>>], [w |-> 3, path |-> <<>>]>>
    /\ ScopeFailed(1)
    /\ db.rows = {1, 3}

\* C2 (rollback on failure): when fn returned an error E and the physical rollback
\* succeeded, db.Transaction returned exactly E, COMMIT was never issued and no row
\* written during fn is durable.
C2_RollbackOnFailure ==
    (fnRet.kind = "return" /\ fnRet.err # Nil /\ tx[1].state = "rolledback") =>
        /\ Returned(fnRet.err)
        /\ ~Issued("COMMIT")
        /\ db.rows \cap Written = {}

C2_Witness ==
    /\ fnRet = [kind |-> "return", err |-> UserErr]
    /\ tx[1].state = "rolledback"
    /\ Written # {}
    /\ Returned(UserErr)

\* C3 (commit on success): when fn returned nil the wrapper issued COMMIT and never
\* ROLLBACK; if the commit succeeded db.Transaction returned nil and the rows written
\* and not undone by a nested rollback are durable; if the commit failed it returned
\* the commit error, a dbkit error whose operation is "Transaction.Commit".
C3_CommitOnSuccess ==
    (fnRet = [kind |-> "return", err |-> Nil]) =>
        /\ Issued("COMMIT")
        /\ ~Issued("ROLLBACK")
        /\ tx[1].state = "committed" =>
               /\ Returned(Nil)
               /\ \A i \in 1 .. Len(wrote) : wrote[i].path = <<>> => wrote[i].w \in db.rows
        /\ tx[1].state # "committed" =>
               /\ ret.kind = "return"
               /\ ret.err # Nil
               /\ ret.err.kind = "Error"
               /\ ret.err.op = "Transaction.Commit"

\* C4 (panic-triggered rollback): when fn panicked, ROLLBACK was issued on the
\* physical transaction, COMMIT never was, nothing written is durable, and the panic
\* that left db.Transaction carries fn's panic value, whether the rollback succeeded
\* or failed.
C4_PanicRollback ==
    fnRet.kind = "panic" =>
        /\ ret = [kind |-> "panic", value |-> fnRet.value]
        /\ tx[1].cmds[Len(tx[1].cmds)] = "ROLLBACK"
        /\ ~Issued("COMMIT")
        /\ tx[1].state \in {"rolledback", "lost"}
        /\ db.rows = {}

\* fn wrote, panicked, and the rollback failed
C4_Witness ==
    /\ fnRet.kind = "panic"
    /\ ret.kind = "panic"
    /\ Written # {}
    /\ tx[1].state = "lost"

\* C9 (rollback idempotence): on a manual scope, a Rollback called when the scope is
\* already committed or rolled back returns nil and changes neither the durable data
\* nor the scope's terminal state.
C9_RollbackIdempotent ==
    [][(nOps' = nOps + 1 /\ lastOp'.op = "Rollback"
          /\ tx[1].state \in {"committed", "rolledback"})
        => (lastOp'.err = Nil /\ db' = db /\ tx'[1].state = tx[1].state)]_vars

\* Rollback after a successful Commit of a written row
C9_Witness ==
    /\ lastOp.op = "Rollback"
    /\ lastOp.before = "committed"
    /\ lastOp.err = Nil
    /\ db.rows # {}

\* C14 (nested scopes never close the physical transaction): a Commit or Rollback
\* called by the callback of a nested scope on its child scope leaves the physical
\* transaction open and the durable data as they were.
C14_NestedNeverCloses ==
    [][(mode = "callback" /\ Len(stack) > 1 /\ nOps' = nOps + 1) =>
          (tx'[1].state = "open" /\ db' = db)]_vars

\* C13 (terminal states): a scope that is committed or rolled back stays so and the
\* durable data no longer changes through it; a Commit called on such a scope returns
\* a dbkit error and changes no data.
C13_TerminalStates ==
    [][tx[1].state \in {"committed", "rolledback"} =>
          /\ tx'[1].state = tx[1].state
          /\ db' = db
          /\ (nOps' = nOps + 1 /\ lastOp'.op = "Commit") =>
                 (lastOp'.err # Nil /\ lastOp'.err.kind = "Error")]_vars

\* Commit after a successful Commit of a written row: an error, the row still there
C13_Witness ==
    /\ lastOp.op = "Commit"
    /\ lastOp.before = "committed"
    /\ lastOp.err = wrapError(ErrTxDone, "Commit")
    /\ tx[1].state = "committed"
    /\ db.rows = {1}

\* C12 (composite errors): for every scope whose callback returned an error E, if the
\* rollback that followed (ROLLBACK TO SAVEPOINT for a nested scope, the physical
\* Rollback for the top-level one) failed with R, the wrapper returned an error that
\* wraps E, carries R and is not E; if the rollback succeeded it returned E itself.
C12_CompositeErrors ==
    \A j \in 1 .. Len(scopes) :
        LET sc == scopes[j]
        IN (sc.started /\ sc.fnErr # Nil) =>
              /\ sc.rb # Nil =>
                     /\ sc.err.kind = "errorf"
                     /\ sc.err.wraps = sc.fnErr
                     /\ sc.err.rb = sc.rb
                     /\ sc.err # sc.fnErr
              /\ sc.rb = Nil => sc.err = sc.fnErr
              /\ sc.id = 0 => ret = [kind |-> "return", err |-> sc.err]

\* a nested scope whose rollback to the savepoint failed, inside a transaction whose
\* physical rollback failed too
C12_Witness ==
    /\ \E j \in 1 .. Len(scopes) :
           scopes[j].id > 0 /\ scopes[j].fnErr = UserErr /\ scopes[j].rb = ErrConn
    /\ \E j \in 1 .. Len(scopes) :
           /\ scopes[j].id = 0 /\ scopes[j].fnErr # Nil /\ scopes[j].rb # Nil
           /\ ret.err = Errorf("rollback failed", scopes[j].rb, scopes[j].fnErr)

\* the n of a savepoint name sp_<n> with n >= 1 (0 if the name has not that form)
NameNumber(name) ==
    LET ns == {n \in 1 .. Len(names) : name = "sp_" \o ToString(n)}
    IN IF ns = {} THEN 0 ELSE CHOOSE n \in ns : TRUE

\* C11 (savepoint name uniqueness): every name allocated on the physical transaction
\* is sp_<n> with n >= 1, no two allocations get the same name, and n strictly
\* increases in the order of allocation, for sibling and nested scopes, released or
\* rolled back, and for goroutines whose allocations interleave.
C11_SavepointNamesUnique ==
    /\ \A i \in 1 .. Len(names) : NameNumber(names[i]) >= 1
    /\ \A i, j \in 1 .. Len(names) :
           i < j => /\ names[i] # names[j]
                    /\ NameNumber(names[i]) < NameNumber(names[j])

\* goroutine 1 got sp_1, goroutine 2 got sp_2 and issued its SAVEPOINT first
C11_Witness ==
    /\ names = <<"sp_1", "sp_2">>
    /\ co[1].id = 1 /\ co[2].id = 2
    /\ tx[1].cmds = <<"BEGIN", "SAVEPOINT sp_2", "SAVEPOINT sp_1">>

(* ------------------------- claims: migrations -------------------------- *)
\* the Migrate call of caller 1 has returned
Done == mig[1].pc = "returned"
IdsOf(list) == [i \in 1 .. Len(list) |-> list[i].id]
EntryOf(m) == [id |-> m.id, checksum |-> checksumSQL(m.sql)]
\* the ledger row of id in database d (the empty sequence if there is none)
RowsOf(d, id) == SelectSeq(d.ledger, LAMBDA e : e.id = id)
InLedger(d, id) == RowsOf(d, id) # <<>>
\* the migrations among the first n of list whose id was not in the ledger at the start
RECURSIVE NewAmong(_, _, _)
NewAmong(list, n, d) ==
    IF n = 0 THEN <<>>
    ELSE IF InLedger(d, list[n].id) THEN NewAmong(list, n - 1, d)
    ELSE Append(NewAmong(list, n - 1, d), list[n])
RECURSIVE Entries(_)
Entries(ms) == IF ms = <<>> THEN <<>> ELSE <<EntryOf(Head(ms))>> \o Entries(Tail(ms))
\* C5 (partial-failure containment): Migrate([M1, M2, M3]) with M1 and M3 valid and
\* M2's SQL failing, on an empty ledger and with no other statement failing, returns
\* an error; afterwards the ledger and the schema hold M1 alone, and the SQL executed
\* by the call is M1's, then M2's: M3's never runs.
C5_PartialFailureContainment ==
    LET g == mig[1]
    IN (/\ Done
        /\ Len(g.list) = 3
        /\ ValidSQL(g.list[1].sql) /\ ~ValidSQL(g.list[2].sql) /\ ValidSQL(g.list[3].sql)
        /\ g.start.ledger = <<>>
        /\ ~g.fault)
       => /\ g.ret.err # Nil
          /\ db.ledger = <<EntryOf(g.list[1])>>
          /\ db.schema = <<[id |-> g.list[1].id, sql |-> g.list[1].sql]>>
          /\ g.exec = <<g.list[1], g.list[2]>>

C5_Witness ==
    /\ Done
    /\ IdsOf(mig[1].list) = <<"b_002", "a_001", "c_003">>
    /\ mig[1].list[2].sql = SqlPostsBroken
    /\ mig[1].start.ledger = <<>>
    /\ ~mig[1].fault
    /\ mig[1].ret.err # Nil
    /\ IdsOf(db.ledger) = <<"b_002">>

\* C6 (idempotent re-application): a Migrate call with the list of the successful call
\* just before it never executes migration SQL and leaves ledger and schema as they
\* were; when its own ledger statements succeed it returns success with Applied empty
\* and Skipped the ids of the list in input order.
C6_IdempotentReapplication ==
    LET g == mig[1]
    IN g.again =>
          /\ g.exec = <<>>
          /\ db.ledger = g.start.ledger
          /\ db.schema = g.start.schema
          /\ (Done /\ ~g.fault) =>
                 /\ g.ret.err = Nil
                 /\ g.ret.result.applied = <<>>
                 /\ g.ret.result.skipped = IdsOf(g.list)

C6_Witness ==
    /\ Done
    /\ mig[1].again
    /\ Len(mig[1].list) = 3
    /\ mig[1].ret.err = Nil
    /\ mig[1].ret.result.skipped = IdsOf(mig[1].list)
    /\ Len(db.ledger) = 3

\* the migration at position k of the running list drifted from the ledger of the start
Drifted(g, k) ==
    /\ k \in 1 .. Len(g.list)
    /\ InLedger(g.start, g.list[k].id)
    /\ RowsOf(g.start, g.list[k].id)[1].checksum # checksumSQL(g.list[k].sql)

\* what C7 says of every drifted migration X = list[k] besides the error returned
DriftContained(g, k) ==
    /\ g.ret.err # Nil
    /\ g.ret.result = Nil
    /\ \A i \in 1 .. Len(g.exec) : g.exec[i].id # g.list[k].id
    /\ RowsOf(db, g.list[k].id) = RowsOf(g.start, g.list[k].id)
    /\ g.idx <= k
    /\ g.exec = SubSeq(NewAmong(g.list, g.idx, g.start), 1, Len(g.exec))
    /\ \A i \in 1 .. Len(g.result.applied) :
           \E j \in 1 .. Len(db.ledger) : db.ledger[j] = g.result.applied[i]

\* C7 as stated (checksum drift detection): whenever the list holds a migration X
\* whose checksum differs from the ledger's, Migrate returns the error naming X and
\* both checksums, does not execute X's SQL, leaves X's ledger row alone, attempts
\* nothing after X and keeps what it applied before X.
C7_DriftDetection_AsStated ==
    LET g == mig[1]
    IN \A k \in 1 .. Len(g.list) :
         (Done /\ ~g.fault /\ Drifted(g, k)) =>
            /\ DriftContained(g, k)
            /\ g.ret.err = DriftError(g.list[k].id, RowsOf(g.start, g.list[k].id)[1].checksum,
                                       checksumSQL(g.list[k].sql))

\* C7 as amended: the same, except that the error names X and both checksums when
\* the run gets as far as X (no earlier migration of the list failed or drifted);
\* otherwise the error is that of the earlier migration.
C7_DriftDetection ==
    LET g == mig[1]
    IN \A k \in 1 .. Len(g.list) :
         (Done /\ ~g.fault /\ Drifted(g, k)) =>
            /\ DriftContained(g, k)
            /\ g.idx = k =>
                   g.ret.err = DriftError(g.list[k].id,
                                          RowsOf(g.start, g.list[k].id)[1].checksum,
                                          checksumSQL(g.list[k].sql))

\* c_003 is applied by this call, then b_002 is found edited, a_001 is never tried
C7_Witness ==
    /\ Done
    /\ ~mig[1].fault
    /\ Len(mig[1].list) = 3
    /\ Drifted(mig[1], 2)
    /\ mig[1].idx = 2
    /\ mig[1].list[2].sql = SqlUsersEdited
    /\ mig[1].ret.err.kind = "Error"
    /\ mig[1].ret.err.op = "Migrate"
    /\ IdsOf(mig[1].exec) = <<"c_003">>
    /\ IdsOf(db.ledger) = <<"b_002", "c_003">>

\* ledger rows and durable schema changes go in pairs, one per id
LedgerMatchesSchema ==
    /\ Len(db.ledger) = Len(db.schema)
    /\ \A i \in 1 .. Len(db.ledger) :
           /\ db.ledger[i].id = db.schema[i].id
           /\ db.ledger[i].checksum = checksumSQL(db.schema[i].sql)
    /\ \A i, j \in 1 .. Len(db.ledger) : db.ledger[i].id = db.ledger[j].id => i = j

\* C8 (ledger/schema atomicity): in every state an id has a ledger row exactly when
\* the SQL applied under it is durable, the row's checksum is the digest of that SQL,
\* and no step changes or removes a row already written.
C8_LedgerSchemaAtomicity ==
    /\ []LedgerMatchesSchema
    /\ [][/\ Len(db'.ledger) >= Len(db.ledger)
           /\ SubSeq(db'.ledger, 1, Len(db.ledger)) = db.ledger]_vars

\* a call that applied one migration and then failed at the ledger insert of the next
C8_Witness ==
    /\ Done
    /\ mig[1].ret.err.kind = "Error"
    /\ mig[1].ret.err.op = "Migrate.Record"
    /\ mig[1].ret.err.code = "DUPLICATE"
    /\ Len(mig[1].exec) = 2
    /\ Len(db.ledger) >= 1

DistinctIds(list) == \A i, j \in 1 .. Len(list) : list[i].id = list[j].id => i = j
\* the ids among the first n of list that were in the ledger at the start
RECURSIVE OldAmong(_, _, _)
OldAmong(list, n, d) ==
    IF n = 0 THEN <<>>
    ELSE IF InLedger(d, list[n].id) THEN Append(OldAmong(list, n - 1, d), list[n].id)
    ELSE OldAmong(list, n - 1, d)
\* the call in progress retries, with no id twice, the list of the call that failed at
\* the SQL or the ledger insert of migration k, and no statement fails on the connection
Retried(g, k) == k > 0 /\ g.retry = k /\ DistinctIds(g.list) /\ ~g.fault

\* C16 as stated (resumability after failure): the retry with M_k fixed succeeds,
\* Skipped is M_1..M_{k-1} and Applied is M_k and every migration after it, in order.
C16_Resumability_AsStated ==
    LET g == mig[1]
        k == g.retry
        n == Len(g.list)
    IN (Done /\ Retried(g, k)) =>
          /\ g.ret.err = Nil
          /\ g.ret.result.skipped = IdsOf(SubSeq(g.list, 1, k - 1))
          /\ g.ret.result.applied = Entries(SubSeq(g.list, k, n))

\* C16 as amended: the failed attempt left no ledger row for M_k; the retry skips
\* M_1..M_{k-1} and applies M_k (it is neither skipped nor reported as drift); and when
\* no migration after M_k has invalid SQL or has drifted, the retry succeeds, Skipped
\* being the ids already in the ledger and Applied the others, in input order.
C16_Resumability ==
    LET g == mig[1]
        k == g.retry
        n == Len(g.list)
    IN (k > 0 /\ DistinctIds(g.list)) =>
          /\ ~InLedger(g.start, g.list[k].id)
          /\ \A i \in 1 .. k - 1 : InLedger(g.start, g.list[i].id) /\ ~Drifted(g, i)
          /\ (Done /\ Retried(g, k)) =>
                 /\ g.idx >= k
                 /\ SubSeq(g.result.skipped, 1, k - 1) = IdsOf(SubSeq(g.list, 1, k - 1))
                 /\ g.exec # <<>> /\ g.exec[1] = g.list[k]
                 /\ InLedger(db, g.list[k].id)
                 /\ RowsOf(db, g.list[k].id)[1] = EntryOf(g.list[k])
                 /\ (\A i \in k + 1 .. n : ValidSQL(g.list[i].sql) /\ ~Drifted(g, i)) =>
                        /\ g.ret.err = Nil
                        /\ g.ret.result.skipped = OldAmong(g.list, n, g.start)
                        /\ g.ret.result.applied = Entries(NewAmong(g.list, n, g.start))
                        /\ g.ret.result.applied[1] = EntryOf(g.list[k])

\* [b_002, a_001 (broken), c_003] failed at a_001; retried with a_001 fixed: b_002
\* skipped, a_001 and c_003 applied
C16_Witness ==
    /\ Done
    /\ Retried(mig[1], 2)
    /\ mig[1].list = <<[id |-> "b_002", sql |-> SqlUsers], [id |-> "a_001", sql |-> SqlPosts],
                       [id |-> "c_003", sql |-> SqlTags]>>
    /\ mig[1].ret.err = Nil
    /\ mig[1].ret.result.skipped = <<"b_002">>
    /\ IdsOf(mig[1].ret.result.applied) = <<"a_001", "c_003">>
    /\ IdsOf(db.ledger) = <<"b_002", "a_001", "c_003">>

\* C20 (checksum drift has its own error kind): when Migrate returns because the
\* checksum of a migration differs from the ledger's, the error's kind is none of
\* Unknown and the other kinds of the taxonomy, and the error is not retryable.
C20_ChecksumDriftKind ==
    LET g == mig[1]
    IN (/\ Done
        /\ g.idx \in 1 .. Len(g.list)
        /\ g.applied # << >>
        /\ Decide(g.applied, g.list[g.idx]) = "drift")
       => /\ g.ret.err.kind = "Error"
          /\ g.ret.err.code \notin ErrorCodes
          /\ ~IsRetryable(g.ret.err)

\* C19 (applied/skipped partition): a successful Migrate(L) with distinct ids returns as
\* Skipped the ids of L that were in the ledger before the call and as Applied those
\* that were not, each in input order, so that every id of L is in exactly one of the
\* two; Migrate of the empty list, its statements succeeding, returns success with
\* both lists empty and leaves the ledger as it was.
C19_AppliedSkippedPartition ==
    LET g == mig[1]
        n == Len(g.list)
    IN /\ (Done /\ g.ret.err = Nil /\ DistinctIds(g.list)) =>
              LET sk == g.ret.result.skipped
                  ap == IdsOf(g.ret.result.applied)
              IN /\ sk = OldAmong(g.list, n, g.start)
                 /\ ap = IdsOf(NewAmong(g.list, n, g.start))
                 /\ \A i \in 1 .. n :
                        (\E j \in 1 .. Len(sk) : sk[j] = g.list[i].id)
                            # (\E j \in 1 .. Len(ap) : ap[j] = g.list[i].id)
                 /\ Len(sk) + Len(ap) = n
       /\ (Done /\ g.list = <<>> /\ ~g.fault) =>
              /\ g.ret.err = Nil
              /\ g.ret.result = NoResult
              /\ db.ledger = g.start.ledger

\* [c_003, b_002, a_001] with b_002 already applied: b_002 skipped, c_003 and a_001 applied
C19_Witness ==
    /\ Done
    /\ mig[1].ret.err = Nil
    /\ IdsOf(mig[1].list) = <<"c_003", "b_002", "a_001">>
    /\ IdsOf(mig[1].start.ledger) = <<"b_002">>
    /\ mig[1].ret.result.skipped = <<"b_002">>
    /\ IdsOf(mig[1].ret.result.applied) = <<"c_003", "a_001">>

\* MigrationStatus has returned its report to caller 1
StatusReported ==
    mig[1].pc = "reported" /\ mig[1].ret.kind = "status" /\ mig[1].ret.err = Nil
\* every part of the durable state but the existence of the (possibly empty) ledger table
Durable(d) == [rows |-> d.rows, schema |-> d.schema, ledger |-> d.ledger,
               applied_at |-> d.applied_at]

C18_AppliedOldestFirst ==
    (mig[1].pc = "reported" /\ mig[1].ret.kind = "applied" /\ mig[1].ret.err = Nil) =>
        LET rows == mig[1].ret.rows
        IN /\ [i \in 1 .. Len(rows) |-> [id |-> rows[i].id, checksum |-> rows[i].checksum]]
                  = db.ledger
           /\ \A i, j \in 1 .. Len(rows) : i < j => rows[i].appliedAt < rows[j].appliedAt

\* c_003 applied by one call, b_002 and a_001 by a later one: returned in that order
C18_Witness ==
    /\ mig[1].pc = "reported" /\ mig[1].ret.kind = "applied" /\ mig[1].ret.err = Nil
    /\ IdsOf(mig[1].ret.rows) = <<"c_003", "b_002", "a_001">>
    /\ mig[1].prev.ok /\ IdsOf(mig[1].prev.list) = <<"b_002", "a_001">>

\* both callers' Migrate calls have returned
Finished == \A c \in Callers : mig[c].pc = "returned"
AppliedIds(c) == {mig[c].result.applied[i].id : i \in 1 .. Len(mig[c].result.applied)}
\* caller c executed a valid SQL text under id x
Attempted(c, x) ==
    \E i \in 1 .. Len(mig[c].exec) : mig[c].exec[i].id = x /\ ValidSQL(mig[c].exec[i].sql)
\* number of durable schema effects recorded under id x
SchemaCount(x) == Cardinality({i \in 1 .. Len(db.schema) : db.schema[i].id = x})

\* C15 (concurrent migrate race): with two callers running Migrate at the same time,
\* in every state the ledger has at most one row per id, each row paired with the
\* durable effects of its SQL; an id is never in the Applied list of both callers; a
\* caller whose ledger insert hit the duplicate key gets an error carrying the
\* duplicate-key error and no result, and the id is not in its Applied list; and once
\* both calls are over, an id whose SQL some caller ran, with no statement failing on
\* the connection, has exactly one ledger row and its effects exactly once.
C15_ConcurrentMigrateRace ==
    /\ LedgerMatchesSchema
    /\ \A x \in {"a_001", "b_002", "c_003"} :
           /\ ~(x \in AppliedIds(1) /\ x \in AppliedIds(2))
           /\ (Finished /\ (\A c \in Callers : ~mig[c].fault)
                  /\ (\E c \in Callers : Attempted(c, x)))
                 => (Len(RowsOf(db, x)) = 1 /\ SchemaCount(x) = 1)
    /\ \A c \in Callers :
           (mig[c].pc = "returned" /\ mig[c].lost) =>
              LET g == mig[c]
                  x == g.list[g.idx].id
                  dupErr == wrapError(PgError("23505"), "Migrate.Record")
              IN /\ g.ret.result = Nil
                 /\ g.ret.err = dupErr
                      \/ (g.ret.err.kind = "errorf" /\ g.ret.err.wraps = dupErr)
                 /\ dupErr.code = "DUPLICATE"
                 /\ x \notin AppliedIds(c)
                 /\ Len(RowsOf(db, x)) = 1
                 /\ SchemaCount(x) = 1
                 /\ tx[c].state = "none"

\* both callers ran the SQL of b_002; caller 2 recorded it, caller 1 hit the duplicate key
C15_Witness ==
    /\ Finished
    /\ mig[1].list = <<[id |-> "b_002", sql |-> SqlUsers]>>
    /\ mig[2].list = mig[1].list
    /\ mig[1].start.ledger = <<>> /\ mig[2].start.ledger = <<>>
    /\ mig[1].exec = mig[1].list /\ mig[2].exec = mig[2].list
    /\ mig[1].lost /\ ~mig[2].lost
    /\ AppliedIds(2) = {"b_002"}
    /\ mig[1].ret.err = wrapError(PgError("23505"), "Migrate.Record")
    /\ IdsOf(db.ledger) = <<"b_002">>

\* C10 (ordering preservation): the SQL a call has executed is, in input order, that
\* of the migrations of the list not in the ledger at the start; while one of them is
\* being applied all those before it are committed, in that order; and on success
\* Applied lists them in that order.
C10_OrderingPreservation ==
    LET g == mig[1]
        started == IF g.pc \in {"record", "commit"} THEN g.idx ELSE g.idx - 1
    IN (g.pc \in {"loop", "exec", "record", "commit"} \/ (Done /\ g.ret.err = Nil)) =>
          /\ g.exec = NewAmong(g.list, started, g.start)
          /\ db.ledger = g.start.ledger \o Entries(NewAmong(g.list, g.idx - 1, g.start))
          /\ g.result.applied = Entries(NewAmong(g.list, g.idx - 1, g.start))
          /\ Done => g.ret.result.applied = Entries(NewAmong(g.list, Len(g.list), g.start))

\* b_002 then a_001, in that order, on an empty ledger: a_001 starts after b_002 is in
\* the ledger
C10_Witness ==
    /\ IdsOf(mig[1].list) = <<"b_002", "a_001">>
    /\ mig[1].start.ledger = <<>>
    /\ mig[1].pc = "exec"
    /\ mig[1].idx = 2
    /\ IdsOf(db.ledger) = <<"b_002">>


\* the results of fn that are optimistic locking conflicts
Conflicts == FnErrors \ {Nil, UserErr, wrapError(PgError("40001"), "UpdateWithVersion")}

\* C21 (RetryOnConflict, maxRetries >= 1): fn is never called more than maxRetries
\* times; when the call has returned, every call of fn but the last returned a
\* conflict, the value returned is what the last call returned, and the last call
\* returned a conflict only if it was call number maxRetries.
C21_RetryOnConflict ==
    rt.maxRetries >= 1 =>
        /\ Len(rt.calls) <= rt.maxRetries
        /\ rt.pc = "returned" =>
               LET n == Len(rt.calls)
               IN /\ n >= 1
                  /\ \A k \in 1 .. n - 1 : rt.calls[k] \in Conflicts
                  /\ rt.ret = [kind |-> "return", err |-> rt.calls[n]]
                  /\ rt.calls[n] \in Conflicts => n = rt.maxRetries

\* maxRetries = 3: two conflicts built by UpdateWithVersion, then fn returns nil
C21_Witness ==
    /\ rt.pc = "returned"
    /\ rt.maxRetries = 3
    /\ rt.calls = <<ConflictError("UpdateWithVersion"), ConflictError("UpdateWithVersion"), Nil>>
    /\ rt.ret = [kind |-> "return", err |-> Nil]

\* C30 (RetryOnConflict, every maxRetries): when the call has returned, fn was called
\* at least once, and nil was returned only if some call of fn returned nil.
C30_RetryCallsFn ==
    rt.pc = "returned" =>
        /\ Len(rt.calls) >= 1
        /\ rt.ret.err = Nil => \E k \in 1 .. Len(rt.calls) : rt.calls[k] = Nil


\* log[k] is a call of op that returned nil
Made(k, op) == log[k].op = op /\ log[k].err = Nil
\* write number w was made after savepoint call s and before RollbackTo call r, which
\* names the same savepoint, no savepoint of that name being created in between
RolledBack(w) ==
    \E s, r \in 1 .. Len(log) :
        /\ s < r
        /\ Made(s, "Savepoint") /\ Made(r, "RollbackTo")
        /\ log[s].name = log[r].name
        /\ \A k \in s + 1 .. r - 1 : ~(Made(k, "Savepoint") /\ log[k].name = log[s].name)
        /\ log[s].n < w /\ w <= log[r].n
\* every RollbackTo made after write number w names savepoints created after w only
Untouched(w) ==
    \A r \in 1 .. Len(log) :
        (Made(r, "RollbackTo") /\ log[r].n >= w) =>
            \A s \in 1 .. r - 1 :
                (Made(s, "Savepoint") /\ log[s].name = log[r].name) => log[s].n >= w

\* C22 (manual savepoints): on a manually controlled scope that has committed, a write
\* made between Savepoint(name) and RollbackTo(name) is not durable, a write that no
\* RollbackTo reaches back over (made before the savepoint, or after the rollback) is
\* durable; and a RollbackTo that returned nil leaves the scope open and not aborted.
C22_ManualSavepoints ==
    /\ [](mode = "manual" =>
            \A w \in Written :
                /\ RolledBack(w) => w \notin db.rows
                /\ (tx[1].state = "committed" /\ Untouched(w)) => w \in db.rows)
    /\ [][(/\ mode = "manual"
            /\ Len(log') > Len(log)
            /\ log'[Len(log')].op = "RollbackTo"
            /\ log'[Len(log')].err = Nil)
               => (tx'[1].state = "open" /\ ~tx'[1].aborted)]_vars

\* W1, Savepoint, W2, RollbackTo, W3, Commit: W1 and W3 are durable, W2 is not
C22_Witness ==
    /\ mode = "manual"
    /\ tx[1].state = "committed"
    /\ Len(log) = 2
    /\ Made(1, "Savepoint") /\ log[1].name = "test_savepoint" /\ log[1].n = 1
    /\ Made(2, "RollbackTo") /\ log[2].name = "test_savepoint" /\ log[2].n = 2
    /\ Len(wrote) = 3
    /\ db.rows = {1, 3}


\* the positions of a statement among those sent on the physical transaction
Positions(cmd) == {i \in 1 .. Len(tx[1].cmds) : tx[1].cmds[i] = cmd}

\* C23 (nested scope protocol): while the callbacks run neither COMMIT nor ROLLBACK is
\* sent; a nested scope whose callback is running (its writes are made then) has had
\* SAVEPOINT sp_n sent once and neither RELEASE nor ROLLBACK TO of sp_n; a nested scope
\* that ended after its SAVEPOINT succeeded has had SAVEPOINT sp_n sent once and, later,
\* one statement ending it: RELEASE SAVEPOINT sp_n exactly when fn returned nil,
\* ROLLBACK TO SAVEPOINT sp_n exactly when fn returned an error, in which case, if the
\* statement succeeded, tx.Transaction returned fn's error itself.
C23_NestedProtocol ==
    /\ mode = "callback" => (~Issued("COMMIT") /\ ~Issued("ROLLBACK"))
    /\ \A k \in 2 .. Len(stack) :
           LET name == SavepointName(stack[k])
           IN /\ Cardinality(Positions("SAVEPOINT " \o name)) = 1
              /\ Positions("RELEASE SAVEPOINT " \o name) = {}
              /\ Positions("ROLLBACK TO SAVEPOINT " \o name) = {}
    /\ \A j \in 1 .. Len(scopes) :
           (scopes[j].id > 0 /\ scopes[j].started) =>
               LET name == SavepointName(scopes[j].id)
                   sp == Positions("SAVEPOINT " \o name)
                   rel == Positions("RELEASE SAVEPOINT " \o name)
                   rbt == Positions("ROLLBACK TO SAVEPOINT " \o name)
               IN /\ Cardinality(sp) = 1
                  /\ Cardinality(rel \cup rbt) = 1
                  /\ \A a \in sp : \A b \in rel \cup rbt : a < b
                  /\ (rel # {}) <=> (scopes[j].fnErr = Nil)
                  /\ (rbt # {}) <=> (scopes[j].fnErr # Nil)
                  /\ (scopes[j].fnErr # Nil /\ scopes[j].rb = Nil)
                         => scopes[j].err = scopes[j].fnErr

\* sp_1 is released after its callback returned nil, sp_2 is rolled back to after its
\* callback returned an error, each with a write inside; the top-level callback runs on
C23_Witness ==
    /\ mode = "callback"
    /\ tx[1].cmds = <<"BEGIN", "SAVEPOINT sp_1", "RELEASE SAVEPOINT sp_1",
                      "SAVEPOINT sp_2", "ROLLBACK TO SAVEPOINT sp_2">>
    /\ wrote = <<[w |-> 1, path |-> <<1>>], [w |-> 2, path |-> <<2>>]>>
    /\ scopes[2] = [id |-> 2, started |-> TRUE, fnErr |-> UserErr, err |-> UserErr, rb |-> Nil]


\* C24 (result agrees with outcome): when db.Transaction has returned from a callback
\* that returned, callbacks that call Commit or Rollback on their scope included, the
\* result is nil exactly when the physical transaction ended committed, and with a
\* non-nil result no row written by the callback is durable.
C24_ResultAgreesWithOutcome ==
    (mode = "returned" /\ fnRet.kind = "return") =>
        /\ (ret.err = Nil) <=> (tx[1].state = "committed")
        /\ ret.err # Nil => db.rows \cap Written = {}


\* the scopes around write number w when it was made, outermost first
PathOf(w) == wrote[CHOOSE i \in 1 .. Len(wrote) : wrote[i].w = w].path
\* write number w was made inside nested scope id: by its callback or by the callback
\* of one of its descendants
Inside(w, id) == \E k \in 1 .. Len(PathOf(w)) : PathOf(w)[k] = id
\* the pending row writes of the physical transaction, oldest first
PendingRows(t) ==
    LET rows == SelectSeq(t.pending, LAMBDA e : e.kind = "row")
    IN [i \in 1 .. Len(rows) |-> rows[i].w]

\* C25 (arbitrary nesting depth): a row written inside a nested scope, at any depth
\* below it, is never durable once that scope's callback has returned an error; and
\* the step in which such a callback returns and ROLLBACK TO SAVEPOINT succeeds removes
\* from the pending writes exactly those made inside the scope, children already
\* released included, keeps every other write in place and leaves the transaction open.
C25_NestedDepth ==
    /\ [](\A w \in Written : \A k \in 1 .. Len(PathOf(w)) :
              ScopeFailed(PathOf(w)[k]) => w \notin db.rows)
    /\ [][(/\ Len(scopes') > Len(scopes)
            /\ scopes'[Len(scopes')].id > 0
            /\ scopes'[Len(scopes')].started
            /\ scopes'[Len(scopes')].fnErr # Nil
            /\ scopes'[Len(scopes')].rb = Nil)
               => /\ tx'[1].state = "open"
                  /\ PendingRows(tx'[1]) =
                         SelectSeq(PendingRows(tx[1]),
                                   LAMBDA w : ~Inside(w, scopes'[Len(scopes')].id))]_vars

\* W1 by the top-level callback, W2 inside sp_1, W3 inside sp_2 nested in sp_1; sp_2 is
\* released, then the callback of sp_1 returns an error: only W1 is still pending
C25_Witness ==
    /\ mode = "callback"
    /\ wrote = <<[w |-> 1, path |-> <<>>], [w |-> 2, path |-> <<1>>],
                 [w |-> 3, path |-> <<1, 2>>]>>
    /\ scopes = <<[id |-> 2, started |-> TRUE, fnErr |-> Nil, err |-> Nil, rb |-> Nil],
                  [id |-> 1, started |-> TRUE, fnErr |-> UserErr, err |-> UserErr, rb |-> Nil]>>
    /\ PendingRows(tx[1]) = <<1>>
    /\ tx[1].state = "open"


\* the callback of nested scope id panicked and the panic was recovered further out
ScopePanicked(id) ==
    \E j \in 1 .. Len(scopes) :
        scopes[j].id = id /\ scopes[j].started /\ scopes[j].fnErr.kind = "panic"

\* C26 (abnormal unwind of a nested scope): when the callback of a nested scope has
\* panicked, no row written inside that scope is durable, whether the panic went on to
\* the top-level wrapper or was recovered by an enclosing callback, and RELEASE
\* SAVEPOINT was not sent for that scope.
C26_NestedPanicRollsBack ==
    /\ (fnRet.kind = "panic" /\ wrote # <<>>) => db.rows = {}
    /\ \A j \in 1 .. Len(scopes) :
           ScopePanicked(scopes[j].id) =>
               /\ ~Issued("RELEASE SAVEPOINT " \o SavepointName(scopes[j].id))
               /\ \A w \in Written : Inside(w, scopes[j].id) => w \notin db.rows


\* list[k] is a later occurrence of an id that was not in the ledger when the call began
LaterOccurrence(g, k) ==
    /\ k \in 1 .. Len(g.list)
    /\ \E j \in 1 .. k - 1 : g.list[j].id = g.list[k].id
    /\ ~InLedger(g.start, g.list[k].id)

\* C27 (stale ledger snapshot): when Migrate comes to a later occurrence of an id that
\* was not in the ledger at the start of the call, its decision is to apply it, neither
\* skip nor drift; a call never succeeds past such an occurrence; and when the call
\* ended there, its SQL being accepted and no statement failing for another reason, the
\* SQL was executed again and Migrate returned the duplicate-key error of the ledger
\* insert, with the transaction rolled back and one ledger entry and one durable
\* application of that id, those of the first occurrence.
C27_StaleLedgerSnapshot ==
    LET g == mig[1]
    IN /\ (g.pc = "loop" /\ LaterOccurrence(g, g.idx))
              => Decide(g.applied, g.list[g.idx]) = "apply"
       /\ (Done /\ g.ret.err = Nil) => \A k \in 1 .. Len(g.list) : ~LaterOccurrence(g, k)
       /\ (Done /\ LaterOccurrence(g, g.idx) /\ ValidSQL(g.list[g.idx].sql) /\ ~g.fault)
              => LET x == g.list[g.idx].id
                     first == CHOOSE j \in 1 .. g.idx - 1 :
                                  /\ g.list[j].id = x
                                  /\ \A i \in 1 .. j - 1 : g.list[i].id # x
                 IN /\ g.exec[Len(g.exec)] = g.list[g.idx]
                    /\ g.ret.err = wrapError(PgError("23505"), "Migrate.Record")
                    /\ g.ret.err.code = "DUPLICATE"
                    /\ g.ret.result = Nil
                    /\ tx[1].state = "none"
                    /\ RowsOf(db, x) = <<EntryOf(g.list[first])>>
                    /\ SelectSeq(db.schema, LAMBDA e : e.id = x)
                           = <<[id |-> x, sql |-> g.list[first].sql]>>

\* b_002 twice in one list, the second time with edited SQL: not drift, a duplicate key
C27_Witness ==
    /\ Done
    /\ mig[1].start.ledger = <<>>
    /\ mig[1].list = <<[id |-> "b_002", sql |-> SqlUsers], [id |-> "b_002", sql |-> SqlUsersEdited]>>
    /\ ~mig[1].fault
    /\ mig[1].idx = 2
    /\ mig[1].ret.err = wrapError(PgError("23505"), "Migrate.Record")
    /\ db.ledger = <<[id |-> "b_002", checksum |-> checksumSQL(SqlUsers)]>>


\* C28 (no partial result on error): when Migrate has returned, the result is nil
\* exactly when the error is not nil, whatever the call applied before it failed.
C28_NoPartialResult ==
    Done => ((mig[1].ret.err # Nil) <=> (mig[1].ret.result = Nil))

\* two migrations applied and committed by this call, the third fails: (nil, err)
C28_Witness ==
    /\ Done
    /\ mig[1].ret.err # Nil
    /\ mig[1].ret.result = Nil
    /\ Len(mig[1].result.applied) = 2
    /\ Len(db.ledger) = Len(mig[1].start.ledger) + 2

\* the nested scope with this id was not started: its SAVEPOINT statement failed
ScopeNotStarted(id) == \E j \in 1 .. Len(scopes) : scopes[j].id = id /\ ~scopes[j].started

=============================================================================
